---- MODULE Spec2Model ----
(***************************************************************************)
(* A model of the bouncer gateway: the policy chain middleware, the proxy  *)
(* handler, the built-in policies, the policy registry, configuration      *)
(* loading and the version gate.                                           *)
(*                                                                         *)
(* Strings whose characters the code inspects (header names and values,    *)
(* paths, glob patterns, version strings) are sequences of one-character   *)
(* strings.  Option<T> is <<>> for None and <<x>> for Some(x).             *)
(***************************************************************************)
EXTENDS Integers, Sequences, FiniteSets, TLC

\* ------------------------------------------------------------------------
\* Characters and strings
\* ------------------------------------------------------------------------

UpperChars == <<"A","B","C","D","E","F","G","H","I","J","K","L","M",
                "N","O","P","Q","R","S","T","U","V","W","X","Y","Z">>

LowerChars == <<"a","b","c","d","e","f","g","h","i","j","k","l","m",
                "n","o","p","q","r","s","t","u","v","w","x","y","z">>

UpperSet == { UpperChars[i] : i \in 1..26 }

LowerOf == [c \in UpperSet |-> LowerChars[CHOOSE i \in 1..26 : UpperChars[i] = c]]

\* char::to_lowercase on the ASCII range
LowerChar(c) == IF c \in UpperSet THEN LowerOf[c] ELSE c

\* str::to_lowercase
ToLowercase(s) == [i \in 1..Len(s) |-> LowerChar(s[i])]

\* str::starts_with
StartsWith(s, p) == Len(s) >= Len(p) /\ SubSeq(s, 1, Len(p)) = p

\* a strip_prefix that tests the prefix but leaves it in place
StripPrefix_keep(s, p) == IF StartsWith(s, p) THEN << s >> ELSE << >>

\* str::strip_prefix : Option<&str>
StripPrefix(s, p) ==
  IF StartsWith(s, p) THEN << SubSeq(s, Len(p) + 1, Len(s)) >> ELSE << >>

\* The byte 0xFF, which is not visible ASCII (HeaderValue::to_str fails on it)
ByteFF == "0xFF"

\* HeaderValue::to_str : Ok only when every byte is visible ASCII
ToStrOk(v) == \A i \in 1..Len(v) : v[i] # ByteFF

\* HeaderValue::try_from(bytes) : control bytes such as a line feed are rejected
HeaderValueTryFromOk(v) == \A i \in 1..Len(v) : v[i] # "\n"

\* Literals used by the code
S_XBouncerDash == <<"x","-","b","o","u","n","c","e","r","-">>
S_Bouncer == <<"b","o","u","n","c","e","r">>
S_BearerSp == <<"B","e","a","r","e","r"," ">>
S_Api == <<"a","p","i">>
S_Unknown == <<"u","n","k","n","o","w","n">>
S_BearerRealm == <<"B","e","a","r","e","r"," ","r","e","a","l","m","=","\"">>

\* Header names (a HeaderMap stores names in lower case)
H_Authorization == <<"a","u","t","h","o","r","i","z","a","t","i","o","n">>
H_WwwAuthenticate == <<"w","w","w","-","a","u","t","h","e","n","t","i","c","a","t","e">>
H_XBouncerRole == <<"x","-","b","o","u","n","c","e","r","-","r","o","l","e">>
H_BouncerToken == <<"b","o","u","n","c","e","r","-","t","o","k","e","n">>
H_BouncerUser == <<"b","o","u","n","c","e","r","-","u","s","e","r">>
H_XBouncerx == <<"x","-","b","o","u","n","c","e","r","x">>
H_Accept == <<"a","c","c","e","p","t">>

\* ------------------------------------------------------------------------
\* HeaderMap: a sequence of entries; `origin` is a ghost field recording who
\* wrote the entry ("client" for the inbound request, "gateway" otherwise).
\* ------------------------------------------------------------------------

Hdr(n, v, o) == [name |-> n, value |-> v, origin |-> o]

RECURSIVE FilterOutName(_, _)
\* HeaderMap::remove : drops every value stored under the name
FilterOutName(hs, n) ==
  IF hs = << >> THEN << >>
  ELSE IF Head(hs).name = n THEN FilterOutName(Tail(hs), n)
       ELSE << Head(hs) >> \o FilterOutName(Tail(hs), n)

\* HeaderMap::insert : replaces every value stored under the name
HeaderInsertFrom(hs, n, v, o) == Append(FilterOutName(hs, n), Hdr(n, v, o))

HeaderInsert(hs, n, v) == HeaderInsertFrom(hs, n, v, "gateway")

\* HeaderMap::get : the first value stored under the name
HeaderGet(hs, n) ==
  IF \E i \in 1..Len(hs) : hs[i].name = n
  THEN << hs[CHOOSE i \in 1..Len(hs) :
                /\ hs[i].name = n
                /\ \A j \in 1..(i - 1) : hs[j].name # n].value >>
  ELSE << >>

\* a filter that forgets the `x-` of the protected prefix
IsXBouncerName_bouncerDash(n) ==
  StartsWith(ToLowercase(n), <<"b","o","u","n","c","e","r","-">>)

\* the filter of clear_bouncer_headers
IsXBouncerName(n) == StartsWith(ToLowercase(n), S_XBouncerDash)

RECURSIVE RemoveAll(_, _)
RemoveAll(hs, names) ==
  IF names = << >> THEN hs
  ELSE RemoveAll(FilterOutName(hs, Head(names)), Tail(names))

RECURSIVE CollectXBouncerNames(_)
CollectXBouncerNames(hs) ==
  IF hs = << >> THEN << >>
  ELSE IF IsXBouncerName(Head(hs).name)
       THEN << Head(hs).name >> \o CollectXBouncerNames(Tail(hs))
       ELSE CollectXBouncerNames(Tail(hs))

\* a scrub that removes nothing
clear_bouncer_headers_keepAll(hs) == hs

\* clear_bouncer_headers : collect the matching names, then remove each
clear_bouncer_headers(hs) == RemoveAll(hs, CollectXBouncerNames(hs))

\* ------------------------------------------------------------------------
\* Requests, responses and policy results
\* ------------------------------------------------------------------------

Req(m, p, q, hs, b) == [method |-> m, path |-> p, query |-> q, headers |-> hs, body |-> b]

Resp(st, hs, b) == [status |-> st, headers |-> hs, body |-> b]

Continue(req) == [tag |-> "Continue", request |-> req]

Terminate(resp) == [tag |-> "Terminate", response |-> resp]

\* process did not return: an unwrap in it panicked
Panic == [tag |-> "Panic"]

\* ------------------------------------------------------------------------
\* glob::Pattern as used by the RBAC policy (MatchOptions::new(): separators
\* need not be literal).  Character classes are not used by the patterns of
\* this model.
\* ------------------------------------------------------------------------

IsSeparator(c) == c = "/"

Tok(t, c) == [t |-> t, c |-> c]

RECURSIVE CountStars(_, _)
CountStars(chars, i) ==
  IF i <= Len(chars) /\ chars[i] = "*" THEN 1 + CountStars(chars, i + 1) ELSE 0

RECURSIVE PatternNew(_, _, _)
\* glob::Pattern::new : [ok, tokens]; i is the 1-based position of the next character
PatternNew(chars, i, tokens) ==
  IF i > Len(chars) THEN [ok |-> TRUE, tokens |-> tokens]
  ELSE IF chars[i] = "?" THEN PatternNew(chars, i + 1, Append(tokens, Tok("AnyChar", "")))
  ELSE IF chars[i] = "*" THEN
    LET count == CountStars(chars, i)
        j == i + count
    IN IF count > 2 THEN [ok |-> FALSE, tokens |-> << >>]
       ELSE IF count = 2 THEN
         IF i = 1 \/ IsSeparator(chars[i - 1]) THEN
           IF j <= Len(chars) /\ IsSeparator(chars[j]) THEN
             PatternNew(chars, j + 1,
               IF Len(tokens) > 1 /\ tokens[Len(tokens)].t = "AnyRecursiveSequence"
               THEN tokens ELSE Append(tokens, Tok("AnyRecursiveSequence", "")))
           ELSE IF j = Len(chars) + 1 THEN
             PatternNew(chars, j,
               IF Len(tokens) > 1 /\ tokens[Len(tokens)].t = "AnyRecursiveSequence"
               THEN tokens ELSE Append(tokens, Tok("AnyRecursiveSequence", "")))
           ELSE [ok |-> FALSE, tokens |-> << >>]
         ELSE [ok |-> FALSE, tokens |-> << >>]
       ELSE PatternNew(chars, j, Append(tokens, Tok("AnySequence", "")))
  ELSE PatternNew(chars, i + 1, Append(tokens, Tok("Char", chars[i])))

RECURSIVE MatchesFrom(_, _, _, _)
RECURSIVE SequenceLoop(_, _, _, _)
\* glob::Pattern::matches_from : "Match", "SubPatternDoesntMatch" or
\* "EntirePatternDoesntMatch"
MatchesFrom(tokens, follows_separator, file, i) ==
  IF i > Len(tokens)
  THEN IF file = << >> THEN "Match" ELSE "SubPatternDoesntMatch"
  ELSE IF tokens[i].t \in {"AnySequence", "AnyRecursiveSequence"}
  THEN LET m == MatchesFrom(tokens, follows_separator, file, i + 1)
       IN IF m # "SubPatternDoesntMatch" THEN m
          ELSE SequenceLoop(tokens, follows_separator, file, i)
  ELSE IF file = << >> THEN "EntirePatternDoesntMatch"
  ELSE IF tokens[i].t = "Char" /\ tokens[i].c # Head(file) THEN "SubPatternDoesntMatch"
  ELSE MatchesFrom(tokens, IsSeparator(Head(file)), Tail(file), i + 1)

\* the `while let Some(c) = file.next()` loop of a sequence token
SequenceLoop(tokens, follows_separator, file, i) ==
  IF file = << >> THEN MatchesFrom(tokens, follows_separator, file, i + 1)
  ELSE LET fs == IsSeparator(Head(file))
       IN IF tokens[i].t = "AnyRecursiveSequence" /\ ~fs
          THEN SequenceLoop(tokens, fs, Tail(file), i)
          ELSE LET m == MatchesFrom(tokens, fs, Tail(file), i + 1)
               IN IF m # "SubPatternDoesntMatch" THEN m
                  ELSE SequenceLoop(tokens, fs, Tail(file), i)

\* glob::Pattern::matches
PatternMatches(tokens, str) == MatchesFrom(tokens, TRUE, str, 1) = "Match"

\* ------------------------------------------------------------------------
\* Built-in policies
\* ------------------------------------------------------------------------

\* The token store behind a store-backed bearer policy: token -> Option<role>
T_Abc == <<"a","b","c">>
T_Good == <<"g","o","o","d">>
T_Usr == <<"u","s","r">>
R_Admin == <<"a","d","m","i","n">>
R_User == <<"u","s","e","r">>

StoreRole(token) ==
  IF token = T_Good THEN << R_Admin >>
  ELSE IF token = T_Usr THEN << R_User >>
  ELSE << >>

\* `Bearer realm="<realm|api>"`
WwwAuthenticate(p) ==
  Hdr(H_WwwAuthenticate,
      S_BearerRealm \o (IF p.realm = << >> THEN S_Api ELSE p.realm[1]) \o << "\"" >>,
      "gateway")

\* Response::builder().status(401).header(WWW_AUTHENTICATE, format!(..))
\* .body(..).unwrap() : the builder keeps the error of a header value it cannot
\* build, body() returns it and unwrap panics
Unauthorized(p, body) ==
  IF HeaderValueTryFromOk(WwwAuthenticate(p).value)
  THEN Terminate(Resp(401, << WwwAuthenticate(p) >>, body))
  ELSE Panic

\* BearerAuthPolicy::process of @bouncer/authentication/bearer/v1; dbError is
\* the outcome of the store call (TRUE: the adapter returned Err)
BearerAuthPolicy_process(p, request, dbError) ==
  LET auth == HeaderGet(request.headers, H_Authorization) IN
  IF auth = << >>
  THEN Unauthorized(p, "Unauthorized: Bearer token required")
  ELSE IF ~ToStrOk(auth[1])
  THEN Terminate(Resp(401, << >>, "Invalid Authorization header format"))
  ELSE LET tok == StripPrefix(auth[1], S_BearerSp) IN
    IF tok = << >>
    THEN Unauthorized(p,
                        "Unauthorized: Invalid Bearer token format")
    ELSE IF p.db
    THEN IF ~dbError /\ StoreRole(tok[1]) # << >>
         THEN LET role == StoreRole(tok[1])[1]
              IN Continue([request EXCEPT !.headers =
                   HeaderInsert(@, H_XBouncerRole,
                                IF HeaderValueTryFromOk(role) THEN role ELSE S_Unknown)])
         ELSE Unauthorized(p, "Unauthorized: Invalid token")
    ELSE IF p.token # << >> /\ tok[1] = p.token[1]
    THEN Continue(request)
    ELSE Unauthorized(p, "Unauthorized: Invalid token")

\* BearerAuthPolicy::process of @bouncer/auth/bearer/v1 (the factory the
\* server registers): a store hit authenticates but injects no role
AuthBearerPolicy_process(p, request, dbError) ==
  LET auth == HeaderGet(request.headers, H_Authorization) IN
  IF auth = << >>
  THEN Unauthorized(p, "Unauthorized: Bearer token required")
  ELSE IF ~ToStrOk(auth[1])
  THEN Terminate(Resp(401, << >>, "Invalid Authorization header format"))
  ELSE LET tok == StripPrefix(auth[1], S_BearerSp) IN
    IF tok = << >>
    THEN Unauthorized(p,
                        "Unauthorized: Invalid Bearer token format")
    ELSE LET is_authenticated ==
               IF p.db THEN ~dbError /\ StoreRole(tok[1]) # << >>
               ELSE p.token # << >> /\ tok[1] = p.token[1]
         IN IF is_authenticated THEN Continue(request)
            ELSE Unauthorized(p,
                                "Unauthorized: Invalid Bearer token")

H_XAuthRoles == <<"x","-","a","u","t","h","-","r","o","l","e","s">>
H_XAuthOwner == <<"x","-","a","u","t","h","-","o","w","n","e","r">>
O_Bob == <<"b","o","b">>
O_Eve == <<"e","v","e","\n">>

\* the TokenData stored in Redis for a token, if any
TokenData(token) ==
  IF token = T_Good THEN << [roles |-> << R_Admin, R_User >>, owner |-> O_Bob] >>
  ELSE IF token = T_Usr THEN << [roles |-> << R_User >>, owner |-> O_Eve] >>
  ELSE << >>

RECURSIVE SliceJoin(_, _)
\* [String]::join
SliceJoin(parts, sep) ==
  IF parts = << >> THEN << >>
  ELSE IF Len(parts) = 1 THEN parts[1]
  ELSE parts[1] \o << sep >> \o SliceJoin(Tail(parts), sep)

\* BearerAuthManagedPolicy::process ; str::parse::<HeaderValue>().unwrap()
\* panics on a string that is not a header value
BearerAuthManagedPolicy_process(p, request, dbError) ==
  LET auth == HeaderGet(request.headers, H_Authorization) IN
  IF auth = << >>
  THEN Unauthorized(p, "Unauthorized: Bearer token required")
  ELSE IF ~ToStrOk(auth[1])
  THEN Terminate(Resp(401, << >>, "Invalid Authorization header format"))
  ELSE LET tok == StripPrefix(auth[1], S_BearerSp) IN
    IF tok = << >>
    THEN Unauthorized(p, "Unauthorized: Invalid Bearer token format")
    ELSE IF dbError THEN Terminate(Resp(500, << >>, "Internal server error"))
    ELSE IF TokenData(tok[1]) = << >>
    THEN Unauthorized(p, "Unauthorized: Invalid Bearer token")
    ELSE LET token_data == TokenData(tok[1])[1]
             roles == SliceJoin(token_data.roles, ",")
         IN IF ~HeaderValueTryFromOk(roles) \/ ~HeaderValueTryFromOk(token_data.owner)
            THEN Panic
            ELSE Continue([request EXCEPT !.headers =
                   HeaderInsert(HeaderInsert(@, H_XAuthRoles, roles),
                                H_XAuthOwner, token_data.owner)])

\* an RBAC check that wants every entry to grant
RbacPolicy_process_everyEntry(p, request) ==
  LET role == HeaderGet(request.headers, H_XBouncerRole) IN
  IF role = << >>
  THEN Terminate(Resp(401, << >>, "No role header found"))
  ELSE IF ~ToStrOk(role[1])
  THEN Terminate(Resp(401, << >>, "Invalid role header"))
  ELSE LET has_access ==
             \A e \in p.route_roles :
               LET parsed == PatternNew(e.pattern, 1, << >>)
                   tokens == IF parsed.ok THEN parsed.tokens
                             ELSE << Tok("AnySequence", "") >>
               IN PatternMatches(tokens, request.path) /\ role[1] \in e.roles
       IN IF has_access THEN Continue(request)
          ELSE Terminate(Resp(403, << >>, "Access denied"))

\* RbacPolicy::process ; route_roles is a set of [pattern, roles] entries
RbacPolicy_process(p, request) ==
  LET role == HeaderGet(request.headers, H_XBouncerRole) IN
  IF role = << >>
  THEN Terminate(Resp(401, << >>, "No role header found"))
  ELSE IF ~ToStrOk(role[1])
  THEN Terminate(Resp(401, << >>, "Invalid role header"))
  ELSE LET has_access ==
             \E e \in p.route_roles :
               LET parsed == PatternNew(e.pattern, 1, << >>)
                   tokens == IF parsed.ok THEN parsed.tokens
                             ELSE << Tok("AnySequence", "") >>
               IN PatternMatches(tokens, request.path) /\ role[1] \in e.roles
       IN IF has_access THEN Continue(request)
          ELSE Terminate(Resp(403, << >>, "Access denied"))

\* LoggingPolicy::process : logs, then always continues with the request
LoggingPolicy_process(p, request) == Continue(request)

\* Policy::process as dispatched on the boxed policy
Policy_process(p, request, dbError) ==
  CASE p.kind = "authentication_bearer" -> BearerAuthPolicy_process(p, request, dbError)
    [] p.kind = "auth_bearer" -> AuthBearerPolicy_process(p, request, dbError)
    [] p.kind = "rbac" -> RbacPolicy_process(p, request)
    [] p.kind = "managed_bearer" -> BearerAuthManagedPolicy_process(p, request, dbError)
    [] OTHER -> LoggingPolicy_process(p, request)

\* whether this call of process awaits a store lookup
AwaitsStore(p, request) ==
  /\ p.kind \in {"authentication_bearer", "auth_bearer", "managed_bearer"}
  /\ p.db
  /\ LET auth == HeaderGet(request.headers, H_Authorization)
     IN auth # << >> /\ ToStrOk(auth[1]) /\ StripPrefix(auth[1], S_BearerSp) # << >>

\* ------------------------------------------------------------------------
\* Proxy handler (server.rs)
\* ------------------------------------------------------------------------

RECURSIVE TrimEndMatches(_, _)
TrimEndMatches(s, c) ==
  IF s # << >> /\ s[Len(s)] = c THEN TrimEndMatches(SubSeq(s, 1, Len(s) - 1), c) ELSE s

RECURSIVE TrimStartMatches(_, _)
TrimStartMatches(s, c) ==
  IF s # << >> /\ Head(s) = c THEN TrimStartMatches(Tail(s), c) ELSE s

\* the destination URL built by handler
ForwardUrl(destination, request) ==
  LET query == IF request.query = << >> THEN << >> ELSE request.query[1]
      destination_trimmed == TrimEndMatches(destination, "/")
      path_trimmed == TrimStartMatches(request.path, "/")
  IN IF path_trimmed = << >> THEN destination_trimmed
     ELSE IF query = << >> THEN destination_trimmed \o << "/" >> \o path_trimmed
     ELSE destination_trimmed \o << "/" >> \o path_trimmed \o << "?" >> \o query

RECURSIVE CopyHeaders_noSkip(_, _)
\* a header loop that copies every header
CopyHeaders_noSkip(hs, out) ==
  IF hs = << >> THEN out
  ELSE LET h == Head(hs)
       IN IF HeaderValueTryFromOk(h.value)
          THEN CopyHeaders_noSkip(Tail(hs), HeaderInsertFrom(out, h.name, h.value, h.origin))
          ELSE CopyHeaders_noSkip(Tail(hs), out)

RECURSIVE CopyHeaders(_, _)
\* the header loop of handler: skip `bouncer*`, insert the rest
CopyHeaders(hs, out) ==
  IF hs = << >> THEN out
  ELSE LET h == Head(hs)
       IN IF StartsWith(ToLowercase(h.name), S_Bouncer)
          THEN CopyHeaders(Tail(hs), out)
          ELSE IF HeaderValueTryFromOk(h.value)
               THEN CopyHeaders(Tail(hs), HeaderInsertFrom(out, h.name, h.value, h.origin))
               ELSE CopyHeaders(Tail(hs), out)

\* the outbound header map: copied headers, then bouncer-token
ForwardHeaders(request, bouncer_token) ==
  LET headers == CopyHeaders(request.headers, << >>)
  IN IF HeaderValueTryFromOk(bouncer_token)
     THEN HeaderInsert(headers, H_BouncerToken, bouncer_token)
     ELSE headers

\* a method match that attaches the body to DELETE as well
BodyMethods_withDelete == {"POST", "PUT", "PATCH", "DELETE"}

BodyMethods == {"POST", "PUT", "PATCH"}

BodylessMethods == {"GET", "DELETE", "HEAD", "OPTIONS"}

\* handler up to the point where the upstream request is sent; bodyOk is the
\* outcome of collecting the request body.  The result is either a response
\* or the request handed to the HTTP client.
handler(destination, bouncer_token, request, bodyOk) ==
  IF destination = << >>
  THEN [sent |-> << >>, response |-> << Resp(200, << >>, "Hello from Bouncer!") >>]
  ELSE IF ~bodyOk
  THEN [sent |-> << >>, response |-> << Resp(500, << >>, "Failed to read request body") >>]
  ELSE IF request.method \notin BodyMethods \cup BodylessMethods
  THEN [sent |-> << >>,
        response |-> << Resp(501, << >>,
                             "HTTP method " \o request.method \o " not supported") >>]
  ELSE [sent |-> << [method |-> request.method,
                     url |-> ForwardUrl(destination[1], request),
                     headers |-> ForwardHeaders(request, bouncer_token),
                     body |-> IF request.method \in BodyMethods
                              THEN << request.body >> ELSE << >>] >>,
        response |-> << >>]

S_Wildcard == <<"/","{","*","p","a","t","h","}">>

\* start_server : the routes of `app`; the policy router is not among them
AppRoutes == << [path |-> S_Wildcard, endpoint |-> "handler"] >>

\* whether a route of `app` matches the path of a request: a catch-all
\* parameter takes the rest of the path and does not match an empty rest
RouteMatches(route, path) ==
  IF route = S_Wildcard THEN Len(path) >= 2 /\ Head(path) = "/"
  ELSE route = path

\* Router::call : the endpoint of the first matching route, else the
\* fallback of the router, which answers 404
RouteOf(path) ==
  IF \E i \in DOMAIN AppRoutes : RouteMatches(AppRoutes[i].path, path)
  THEN AppRoutes[CHOOSE i \in DOMAIN AppRoutes : RouteMatches(AppRoutes[i].path, path)].endpoint
  ELSE "fallback"

\* the service under the policy layer: `app` routes the request to handler,
\* or answers 404 with an empty body when no route matches
inner_call(destination, bouncer_token, request, bodyOk) ==
  IF RouteOf(request.path) = "handler"
  THEN handler(destination, bouncer_token, request, bodyOk)
  ELSE [sent |-> << >>, response |-> << Resp(404, << >>, "") >>]

\* StatusCode::from_u16(..).unwrap_or(500)
MapStatus(code) == IF code >= 100 /\ code < 1000 THEN code ELSE 500

\* a relay that leaves the headers of the upstream response behind
Relay_noHeaders(upstream) ==
  IF upstream.kind = "send_error"
  THEN Resp(502, << >>, "Failed to forward request: " \o upstream.error)
  ELSE IF upstream.kind = "body_error"
  THEN Resp(500, << >>, "Failed to read response body")
  ELSE Resp(MapStatus(upstream.response.status), << >>, upstream.response.body)

\* handler after send(): upstream is [kind, response]
Relay(upstream) ==
  IF upstream.kind = "send_error"
  THEN Resp(502, << >>, "Failed to forward request: " \o upstream.error)
  ELSE IF upstream.kind = "body_error"
  THEN Resp(500, << >>, "Failed to read response body")
  ELSE Resp(MapStatus(upstream.response.status), upstream.response.headers,
            upstream.response.body)

\* ------------------------------------------------------------------------
\* Inputs of the request pipeline
\* ------------------------------------------------------------------------

\* number of requests in flight over the shared chain
NumRequests == 2

ReqIds == 1..NumRequests

V_BearerAbc == S_BearerSp \o T_Abc
V_BearerGood == S_BearerSp \o T_Good
V_BearerUsr == S_BearerSp \o T_Usr
V_Evil == <<"e","v","i","l">>
V_Json == <<"j","s","o","n">>
V_Html == <<"h","t","m","l">>
Path_AdminX == <<"/","a","d","m","i","n","/","x">>
Path_ApiAB == <<"/","a","p","i","/","a","/","b">>
Path_Root == <<"/">>
Path_Slashes == <<"/","/">>
Pat_AdminAll == <<"/","a","d","m","i","n","/","*","*">>
Pat_ApiStar == <<"/","a","p","i","/","*">>
Q_One == <<"q","=","1">>
D_Up == <<"h","t","t","p",":","/","/","u","p","/">>
Tok_Secret == <<"s","e","c","r","e","t">>
Tok_Bad == <<"b","a","d","\n">>

Client(n, v) == Hdr(n, v, "client")

\* inbound requests as the server hands them to the middleware
Requests ==
  << Req("GET", Path_AdminX, << >>,
         << Client(H_Authorization, V_BearerAbc), Client(H_XBouncerRole, R_Admin) >>, ""),
     Req("GET", Path_AdminX, << >>, << Client(H_Authorization, V_BearerGood) >>, ""),
     Req("GET", Path_AdminX, << >>,
         << Client(H_BouncerToken, V_Evil), Client(H_Authorization, V_BearerGood),
            Client(H_BouncerUser, R_Admin) >>, ""),
     Req("POST", Path_ApiAB, << Q_One >>,
         << Client(H_XBouncerRole, R_Admin), Client(H_Accept, V_Json),
            Client(H_Authorization, V_BearerUsr), Client(H_XBouncerx, V_Evil),
            Client(H_XBouncerRole, R_User), Client(H_Accept, V_Html) >>, "data"),
     Req("TRACE", Path_AdminX, << >>, << >>, ""),
     Req("GET", Path_Root, << Q_One >>, << Client(H_Authorization, V_BearerAbc) >>, ""),
     Req("PUT", Path_Slashes, << Q_One >>, << Client(H_Authorization, V_BearerUsr) >>,
         "data") >>

Pol(kind, token, realm, db, route_roles) ==
  [kind |-> kind, token |-> token, realm |-> realm, db |-> db, route_roles |-> route_roles]

P_Static == Pol("authentication_bearer", << T_Abc >>, << >>, FALSE, {})
P_Store == Pol("authentication_bearer", << >>, << R_Admin >>, TRUE, {})
P_AuthStore == Pol("auth_bearer", << >>, << >>, TRUE, {})
P_Rbac == Pol("rbac", << >>, << >>, FALSE,
              { [pattern |-> Pat_AdminAll, roles |-> {R_Admin}],
                [pattern |-> Pat_ApiStar, roles |-> {R_User, R_Admin}] })
P_Log == Pol("logging", << >>, << >>, FALSE, {})
Realm_Bad == <<"a","\n","b">>
P_Managed == Pol("managed_bearer", << >>, << Realm_Bad >>, TRUE, {})

Cfg(chain, dest, token) == [chain |-> chain, destination |-> dest, token |-> token]

\* the gateways the requests are run against: the chain handed to
\* PolicyLayer::new, the destination address and the captured token
Gateways ==
  { Cfg(<< >>, << D_Up >>, Tok_Secret),
    Cfg(<< P_Static >>, << >>, Tok_Secret),
    Cfg(<< P_Static, P_Rbac >>, << D_Up >>, Tok_Secret),
    Cfg(<< P_Log, P_Store, P_Rbac >>, << D_Up >>, Tok_Secret),
    Cfg(<< P_Managed >>, << D_Up >>, Tok_Bad),
    Cfg(<< P_AuthStore, P_Rbac >>, << D_Up >>, Tok_Secret) }

\* what the upstream may answer to a forwarded request
UpstreamOutcomes ==
  { [kind |-> "send_error", error |-> "connection refused"],
    [kind |-> "body_error"],
    [kind |-> "response",
     response |-> Resp(204, << Hdr(H_Accept, V_Json, "upstream") >>, "done")] }

\* ------------------------------------------------------------------------
\* State
\* ------------------------------------------------------------------------

VARIABLES
  policies,        \* PolicyService.policies : the shared chain
  destination,     \* config.server.destination_address
  bouncer_token,   \* the token captured by start_server
  reqs             \* per request: its task's position and what it has observed

pipeVars == << policies, destination, bouncer_token, reqs >>

VARIABLES
  config_version,  \* validate_version: the version string of the configuration
  current_version, \* validate_version: the version of the running build
  version_result   \* "pending" or what validate_version returned

verVars == << config_version, current_version, version_result >>

VARIABLES
  entry_point,     \* the startup path: main or start_with_config
  config_file,     \* the configuration file
  features,        \* the store features of the build
  environ,         \* the process environment
  CUSTOM_POLICIES, \* the registration functions given to register_custom_policy
  plugins_dir,     \* the libraries of the `plugins` directory, in read_dir order
  startup_pc,      \* boot | loaded | checked | building | built | serving | exited | panicked
  the_config,      \* `config` of main and start_server: the Config load_config returned
  GLOBAL_CONFIG,   \* the OnceCell of lib.rs
  factories,       \* PolicyRegistry.factories : policy id -> factory
  build            \* the activation of build_policy_chain

startVars == << entry_point, config_file, features, environ, CUSTOM_POLICIES, plugins_dir,
                startup_pc,
                the_config, GLOBAL_CONFIG, factories, build >>

vars == << pipeVars, verVars, startVars >>

\* startup at rest, for the specifications that do not run it
StartIdle ==
  /\ entry_point = "none"
  /\ config_file = << >>
  /\ features = {}
  /\ environ = << >>
  /\ CUSTOM_POLICIES = << >>
  /\ plugins_dir = << >>
  /\ startup_pc = "idle"
  /\ the_config = << >>
  /\ GLOBAL_CONFIG = << >>
  /\ factories = << >>
  /\ build = << >>

\* the request pipeline at rest, for the specifications that do not run it
PipeIdle ==
  /\ policies = << >>
  /\ destination = << >>
  /\ bouncer_token = << >>
  /\ reqs = << >>

\* the version gate at rest
VerIdle ==
  /\ config_version = << >>
  /\ current_version = << >>
  /\ version_result = "pending"

\* PolicyService::poll_ready : self.inner.poll_ready(cx), the instance whose
\* readiness the caller obtained before call
poll_ready == [instance |-> "self.inner", clone_for |-> 0]

\* PolicyService::call : let mut inner = self.inner.clone(), the instance
\* that inner.call(current_request) is made on for request r
inner_of_call(r) == [instance |-> "self.inner.clone()", clone_for |-> r]

NewTask(request) ==
  [pc |-> "accepted",        \* accepted | chain | upstream | done | panicked | cancelled
   ready |-> poll_ready,     \* the service instance that reported Ready
   inner |-> << >>,          \* the service instance the future of the call holds
   dropped |-> FALSE,        \* whether the inbound connection was dropped
   inbound |-> request,      \* the request as received
   current |-> request,      \* current_request
   idx |-> 1,                \* position of the `for policy in policies.iter()` loop
   invoked |-> << >>,        \* ghost: the process calls made, with argument, result
                             \* and the outcome of the store lookup, if one was made
   handed |-> << >>,         \* ghost: the request passed to inner.call
   body_read |-> << >>,      \* ghost: whether handler could collect the request body
   sent |-> << >>,           \* the request given to the HTTP client
   upstream |-> << >>,       \* ghost: what came back from send() and bytes()
   response |-> << >>]       \* the response returned to the client

\* The request tasks are interchangeable, so the inbound requests are given
\* to them in the order of Requests.
Init ==
  /\ \E g \in Gateways :
       /\ policies = g.chain
       /\ destination = g.destination
       /\ bouncer_token = g.token
  /\ \E f \in [ReqIds -> 1..Len(Requests)] :
       /\ \A i, j \in ReqIds : i < j => f[i] <= f[j]
       /\ reqs = [r \in ReqIds |-> NewTask(Requests[f[r]])]
  /\ VerIdle
  /\ StartIdle

\* PolicyService::call, first poll: scrub the protected headers
Call(r) ==
  /\ reqs[r].pc = "accepted"
  /\ reqs' = [reqs EXCEPT ![r].pc = "chain",
                          ![r].inner = << inner_of_call(r) >>,
                          ![r].current.headers = clear_bouncer_headers(@)]
  /\ UNCHANGED << policies, destination, bouncer_token, verVars, startVars >>

\* a loop that steps over the policy after the current one
NextPolicy_skip(idx) == idx + 2

\* `for policy in policies.iter()` : the position of the next policy
NextPolicy(idx) == idx + 1

\* a match whose Terminate arm stores the response but does not return
Advance_noReturn(t, result) ==
  IF result.tag = "Continue"
  THEN [t EXCEPT !.current = result.request, !.idx = NextPolicy(@)]
  ELSE IF result.tag = "Panic" THEN [t EXCEPT !.pc = "panicked"]
  ELSE [t EXCEPT !.response = << result.response >>, !.idx = NextPolicy(@)]

\* the match on the PolicyResult; a panic in process unwinds the task of the
\* connection, which then answers nothing
Advance(t, result) ==
  IF result.tag = "Continue"
  THEN [t EXCEPT !.current = result.request, !.idx = NextPolicy(@)]
  ELSE IF result.tag = "Panic" THEN [t EXCEPT !.pc = "panicked"]
  ELSE [t EXCEPT !.response = << result.response >>, !.pc = "done"]

\* a service that keeps current_request in a field its clones share: the
\* policy is given the request of the first task that is in the chain
Process_sharedRequest(r) ==
  /\ reqs[r].pc = "chain"
  /\ reqs[r].idx <= Len(policies)
  /\ LET q == CHOOSE x \in ReqIds :
                /\ reqs[x].pc = "chain"
                /\ \A y \in ReqIds : reqs[y].pc = "chain" => x <= y
         t == reqs[r]
         result == Policy_process(policies[t.idx], reqs[q].current, FALSE)
         entry == [policy |-> t.idx, seen |-> reqs[q].current, result |-> result,
                   lookup |-> IF ~AwaitsStore(policies[t.idx], reqs[q].current)
                              THEN "none" ELSE "Ok"]
     IN reqs' = [reqs EXCEPT ![r] =
                   Advance([t EXCEPT !.invoked = Append(@, entry)], result)]
  /\ UNCHANGED << policies, destination, bouncer_token, verVars, startVars >>

\* one iteration of the loop: policy.process(current_request).await
Process(r) ==
  /\ reqs[r].pc = "chain"
  /\ reqs[r].idx <= Len(policies)
  /\ \E dbError \in IF AwaitsStore(policies[reqs[r].idx], reqs[r].current)
                    THEN BOOLEAN ELSE {FALSE} :
       LET t == reqs[r]
           result == Policy_process(policies[t.idx], t.current, dbError)
           entry == [policy |-> t.idx, seen |-> t.current, result |-> result,
                     lookup |-> IF ~AwaitsStore(policies[t.idx], t.current) THEN "none"
                                ELSE IF dbError THEN "Err" ELSE "Ok"]
       IN reqs' = [reqs EXCEPT ![r] =
                     Advance([t EXCEPT !.invoked = Append(@, entry)], result)]
  /\ UNCHANGED << policies, destination, bouncer_token, verVars, startVars >>

\* inner.call(current_request): the router, then the proxy handler up to send()
Forward(r) ==
  /\ reqs[r].pc = "chain"
  /\ reqs[r].idx > Len(policies)
  /\ \E bodyOk \in BOOLEAN :
       LET t == reqs[r]
           h == inner_call(destination, bouncer_token, t.current, bodyOk)
       IN reqs' = [reqs EXCEPT ![r] =
            [t EXCEPT !.handed = << t.current >>,
                      !.body_read = IF RouteOf(t.current.path) = "handler"
                                       /\ destination # << >>
                                    THEN << bodyOk >> ELSE << >>,
                      !.sent = h.sent,
                      !.response = h.response,
                      !.pc = IF h.sent = << >> THEN "done" ELSE "upstream"]]
  /\ UNCHANGED << policies, destination, bouncer_token, verVars, startVars >>

\* the upstream answers (or fails) and handler relays
UpstreamReply(r) ==
  /\ reqs[r].pc = "upstream"
  /\ \E u \in UpstreamOutcomes :
       reqs' = [reqs EXCEPT ![r].response = << Relay(u) >>, ![r].upstream = << u >>,
                            ![r].pc = "done"]
  /\ UNCHANGED << policies, destination, bouncer_token, verVars, startVars >>

\* the suspension points of the future of a call: a policy awaiting its
\* store, and the handler awaiting the upstream
Suspended(t) ==
  \/ /\ t.pc = "chain"
     /\ t.idx <= Len(policies)
     /\ AwaitsStore(policies[t.idx], t.current)
  \/ t.pc = "upstream"

\* a connection whose drop leaves the future of the call running, as a
\* task spawned for the request would
Drop_detached(r) ==
  /\ Suspended(reqs[r])
  /\ ~reqs[r].dropped
  /\ reqs' = [reqs EXCEPT ![r].dropped = TRUE]
  /\ UNCHANGED << policies, destination, bouncer_token, verVars, startVars >>

\* the inbound connection is dropped while the future PolicyService::call
\* returned is pending: the server drops the future, and with it the policy
\* future or the upstream call it is awaiting; nothing of it runs again
Drop(r) ==
  /\ Suspended(reqs[r])
  /\ ~reqs[r].dropped
  /\ reqs' = [reqs EXCEPT ![r].dropped = TRUE, ![r].pc = "cancelled"]
  /\ UNCHANGED << policies, destination, bouncer_token, verVars, startVars >>

Next ==
  \/ \E r \in ReqIds : Call(r)
  \/ \E r \in ReqIds : Process(r)
  \/ \E r \in ReqIds : Forward(r)
  \/ \E r \in ReqIds : UpstreamReply(r)
  \/ \E r \in ReqIds : Drop(r)

Spec == Init /\ [][Next]_vars

\* every policy's process and the upstream call return, and the runtime
\* polls the future of every request whose connection is open
Fairness ==
  \A r \in ReqIds :
    /\ WF_vars(Call(r))
    /\ WF_vars(Process(r))
    /\ WF_vars(Forward(r))
    /\ WF_vars(UpstreamReply(r))

SpecLive == Init /\ [][Next]_vars /\ Fairness

\* ------------------------------------------------------------------------
\* The version gate (config.rs)
\* ------------------------------------------------------------------------

RECURSIVE SplitFrom(_, _, _, _)
SplitFrom(s, sep, cur, acc) ==
  IF s = << >> THEN Append(acc, cur)
  ELSE IF Head(s) = sep THEN SplitFrom(Tail(s), sep, << >>, Append(acc, cur))
  ELSE SplitFrom(Tail(s), sep, Append(cur, Head(s)), acc)

\* str::split(sep).collect()
Split(s, sep) == SplitFrom(s, sep, << >>, << >>)

S_Star == << "*" >>

\* a version check that compares the minor segment even when it is a wildcard
validate_version_noMinorWildcard(config, current) ==
  LET current_parts == Split(current, ".")
      config_parts == Split(config, ".")
  IN IF Len(current_parts) # 3 THEN "InvalidCurrentFormat"
     ELSE IF Len(config_parts) # 3 THEN "InvalidConfigFormat"
     ELSE IF config_parts[1] = S_Star THEN "WildcardMajor"
     ELSE IF config_parts[1] # current_parts[1] THEN "MajorMismatch"
     ELSE IF config_parts[2] # current_parts[2] THEN "MinorMismatch"
     ELSE IF config_parts[3] # S_Star /\ config_parts[3] # current_parts[3]
          THEN "PatchMismatch"
     ELSE "Ok"

\* validate_version: "Ok" or the kind of the error returned
validate_version(config, current) ==
  LET current_parts == Split(current, ".")
      config_parts == Split(config, ".")
  IN IF Len(current_parts) # 3 THEN "InvalidCurrentFormat"
     ELSE IF Len(config_parts) # 3 THEN "InvalidConfigFormat"
     ELSE IF config_parts[1] = S_Star THEN "WildcardMajor"
     ELSE IF config_parts[1] # current_parts[1] THEN "MajorMismatch"
     ELSE IF config_parts[2] # S_Star /\ config_parts[2] # current_parts[2]
          THEN "MinorMismatch"
     ELSE IF config_parts[3] # S_Star /\ config_parts[3] # current_parts[3]
          THEN "PatchMismatch"
     ELSE "Ok"

\* the largest digit used in the version strings tried
MaxDigit == 1

DigitChars == << "0", "1", "2", "3", "4", "5", "6", "7", "8", "9" >>

DigitSet == { DigitChars[i] : i \in 1..10 }

\* version segments tried: decimals, the wildcard and a segment that is neither
Segments ==
  { << DigitChars[d + 1] >> : d \in 0..MaxDigit } \cup { S_Star, << "x" >>, << "1", "0" >> }

RECURSIVE Join(_, _)
Join(parts, sep) ==
  IF Len(parts) = 1 THEN parts[1]
  ELSE parts[1] \o << sep >> \o Join(Tail(parts), sep)

\* version strings tried: every three-segment string, and some with two or
\* four segments
VersionStrings ==
  { Join(<< a, b, c >>, ".") : a \in Segments, b \in Segments, c \in Segments }
    \cup { Join(<< a, b >>, ".") : a \in { << "0" >> }, b \in { << "1" >>, S_Star } }
    \cup { Join(<< a, a, a, b >>, ".") : a \in { << "0" >> }, b \in { << "0" >>, S_Star } }

VersionInit ==
  /\ config_version \in VersionStrings
  /\ current_version \in VersionStrings
  /\ version_result = "pending"
  /\ PipeIdle
  /\ StartIdle

\* a call validate_version(config_version, current_version)
ValidateVersion ==
  /\ version_result = "pending"
  /\ version_result' = validate_version(config_version, current_version)
  /\ UNCHANGED << config_version, current_version, pipeVars, startVars >>

VersionNext == ValidateVersion

SpecVersion == VersionInit /\ [][VersionNext]_vars

\* ------------------------------------------------------------------------
\* Configuration values, the environment and the configuration file
\* (config.rs).  A serde_json::Value is [t, v]; an error message is a
\* sequence whose pieces, concatenated, are the text.
\* ------------------------------------------------------------------------

JNull == [t |-> "null", v |-> << >>]
JStr(s) == [t |-> "str", v |-> s]
JNum(n) == [t |-> "num", v |-> n]
JObj(f) == [t |-> "obj", v |-> f]
JArr(s) == [t |-> "arr", v |-> s]

Ok(x) == [ok |-> TRUE, value |-> x, err |-> << >>]
Err(e) == [ok |-> FALSE, value |-> << >>, err |-> e]
Msg(s) == << s >>

S_EnvDot == <<"E","N","V",".">>
S_At == << "@" >>
N_TokenA == <<"T","A">>
N_TokenB == <<"T","B">>
N_BouncerToken == <<"B","O","U","N","C","E","R","_","T","O","K","E","N">>
S_Postgres == <<"p","o","s","t","g","r","e","s">>
S_Mysql == <<"m","y","s","q","l">>
S_Redis == <<"r","e","d","i","s">>
S_Mongo == <<"m","o","n","g","o">>
ID_AuthBearerV1 == <<"@","b","o","u","n","c","e","r","/","a","u","t","h","/","b","e","a","r","e","r","/","v","1">>
ID_AuthenticationBearerV1 == <<"@","b","o","u","n","c","e","r","/","a","u","t","h","e","n","t","i","c","a","t","i","o","n","/","b","e","a","r","e","r","/","v","1">>
ID_RbacV1 == <<"@","b","o","u","n","c","e","r","/","a","u","t","h","o","r","i","z","a","t","i","o","n","/","r","b","a","c","/","v","1">>
ID_RateLimiter == <<"r","a","t","e","-","l","i","m","i","t","e","r">>
ID_StatusPage == <<"@","a","c","m","e","/","o","p","s","/","s","t","a","t","u","s","/","v","1">>
Key_Metrics == <<"m","e","t","r","i","c","s">>
U_Db == <<"d","b",":","/","/","h">>
Q_Select == <<"q">>
V_EnvTokenA == S_EnvDot \o N_TokenA
VERSION == <<"0",".","1",".","0">>
Ver_Compatible == <<"0",".","1",".","*">>
Ver_Other == <<"9",".","9",".","9">>

\* env::var : Option<String>
env_var(env, name) == IF name \in DOMAIN env THEN << env[name] >> ELSE << >>

\* the replacement of a string "ENV.<name>" by the variable's value
SubstEnv(s, env) ==
  LET name == StripPrefix(s, S_EnvDot)
  IN IF name # << >> /\ env_var(env, name[1]) # << >>
     THEN env_var(env, name[1])[1] ELSE s

RECURSIVE process_env_vars(_, _)
\* process_env_vars and process_yaml_env_vars : strings, mapping values and
\* sequence items are processed, keys are not
process_env_vars(value, env) ==
  CASE value.t = "str" -> JStr(SubstEnv(value.v, env))
    [] value.t = "obj" ->
         JObj([k \in DOMAIN value.v |-> process_env_vars(value.v[k], env)])
    [] value.t = "arr" ->
         JArr([i \in DOMAIN value.v |-> process_env_vars(value.v[i], env)])
    [] OTHER -> value

PolicyConfig(id, provider, parameters) ==
  [id |-> id, provider |-> provider, parameters |-> parameters]

RECURSIVE process_policy_configs(_, _)
\* Config::process_policy_configs : `iteration` is the order in which the
\* HashMap policy_configs yields its entries
process_policy_configs(list, iteration) ==
  IF iteration = << >> THEN list
  ELSE LET e == Head(iteration)
       IN IF ~StartsWith(e.key, S_At)
          THEN process_policy_configs(list, Tail(iteration))
          ELSE process_policy_configs(
                 Append(list, PolicyConfig(e.key, e.key, e.value)),
                 Tail(iteration))

\* Config.policy_configs after load_config has processed its values: the
\* top-level keys that are no field of Config, as a HashMap
policy_configs(file, env) ==
  { [key |-> file.mapping[i].key,
     value |-> process_env_vars(process_env_vars(file.mapping[i].value, env), env)] :
      i \in DOMAIN file.mapping }

\* the orders in which a HashMap may yield its entries
IterationOrders(map) ==
  { s \in [1..Cardinality(map) -> map] :
      \A i, j \in 1..Cardinality(map) : i # j => s[i] # s[j] }

\* load_config, with the iteration order of policy_configs
load_config(file, env, iteration) ==
  IF file.bouncer_version = << >>
  THEN Err(Msg("Missing required field 'bouncer_version'. Please specify a compatible version (e.g., '0.1.*')"))
  ELSE IF file.server = << >>
  THEN Err(Msg("Failed to parse YAML into Config: missing field server"))
  ELSE Ok([server |->
             [destination_address |->
                IF file.server[1].destination_address = << >> THEN << >>
                ELSE << SubstEnv(SubstEnv(file.server[1].destination_address[1], env),
                                 env) >>],
           policies |->
             process_policy_configs(
               [i \in DOMAIN file.policies |->
                  PolicyConfig(file.policies[i].id, file.policies[i].provider,
                               process_env_vars(file.policies[i].parameters, env))],
               iteration),
           databases |->
             [p \in DOMAIN file.databases |->
                IF file.databases[p] = << >> THEN << >>
                ELSE << SubstEnv(SubstEnv(file.databases[p][1], env), env) >>],
           bouncer_version |-> SubstEnv(file.bouncer_version[1], env),
           policy_configs |-> policy_configs(file, env)])

\* ------------------------------------------------------------------------
\* Policy factories (the providers) and the registry (policy/registry.rs)
\* ------------------------------------------------------------------------

KnownDbs == { S_Postgres, S_Mysql, S_Redis, S_Mongo }

DbName(p) ==
  CASE p = S_Postgres -> "PostgreSQL" [] p = S_Mysql -> "MySQL"
    [] p = S_Redis -> "Redis" [] OTHER -> "MongoDB"

\* the parameter each store of @bouncer/auth/bearer/v1 requires
RequiredField(p) ==
  CASE p = S_Redis -> "token_prefix" [] p = S_Mongo -> "collection"
    [] OTHER -> "token_validation_query"

NotEnabled(p) == DbName(p) \o " support is not enabled. Rebuild with the '"

\* database::validate_database_config, DatabaseError rendered by to_string
validate_database_config(databases, p, feats) ==
  IF p \notin KnownDbs
  THEN Err(Msg("Database configuration error: Unknown database provider: ") \o p)
  ELSE IF databases[p] = << >>
  THEN Err(Msg("Database configuration error: " \o DbName(p)
               \o " database configuration is required but not provided"))
  ELSE IF p \notin feats
  THEN Err(Msg("Database configuration error: " \o NotEnabled(p)) \o p \o Msg("' feature."))
  ELSE Ok(<< >>)

\* database::get_*_client ; connect is whether the store accepts the connection
get_client(url, p, feats, connect) ==
  IF p \notin feats
  THEN Err(Msg("Database configuration error: " \o NotEnabled(p)) \o p \o Msg("' feature."))
  ELSE IF url = << >>
  THEN Err(Msg("Database configuration error: " \o DbName(p) \o " connection "
               \o (IF p = S_Mongo THEN "URI" ELSE "URL") \o " is required"))
  ELSE IF ~connect
  THEN Err(Msg("Database connection error: connection refused"))
  ELSE Ok(<< >>)

Field(parameters, f) == IF f \in DOMAIN parameters.v THEN parameters.v[f] ELSE JNull

OptionOf(j) == IF j.t = "null" THEN << >> ELSE << j.v >>

BearerFields ==
  { "token", "realm", "db_provider", "token_prefix", "token_validation_query",
    "collection" }

RateLimitFields == { "requests_per_minute", "burst" }

\* serde_json::from_value::<F::Config> : the typed configuration of factory F
\* (the numbers of this model are below the largest u32)
Deserialize(F, parameters) ==
  IF parameters.t # "obj"
  THEN Err(Msg("invalid type: " \o parameters.t \o ", expected struct"))
  ELSE CASE F = "status_page" -> Ok(<< >>)
         [] F \in { "auth_bearer_v1", "authentication_bearer_v1", "managed_bearer" } ->
              IF \E f \in BearerFields : Field(parameters, f).t \notin { "null", "str" }
              THEN Err(Msg("invalid type, expected a string"))
              ELSE Ok([f \in BearerFields |-> OptionOf(Field(parameters, f))])
         [] F = "rbac_v1" ->
              LET rr == Field(parameters, "route_roles")
              IN IF rr.t = "null" THEN Err(Msg("missing field route_roles"))
                 ELSE IF rr.t # "obj" \/ \E k \in DOMAIN rr.v : rr.v[k].t # "arr"
                 THEN Err(Msg("invalid type, expected a map"))
                 ELSE IF \E k \in DOMAIN rr.v : \E i \in DOMAIN rr.v[k].v :
                           rr.v[k].v[i].t # "str"
                 THEN Err(Msg("invalid type, expected a string"))
                 ELSE Ok([route_roles |->
                            { [pattern |-> k,
                               roles |-> { rr.v[k].v[i].v : i \in DOMAIN rr.v[k].v }] :
                                k \in DOMAIN rr.v }])
         [] OTHER ->
              IF \E f \in RateLimitFields : Field(parameters, f).t = "null"
              THEN Err(Msg("missing field"))
              ELSE IF \E f \in RateLimitFields :
                        \/ Field(parameters, f).t # "num"
                        \/ Field(parameters, f).v < 0
              THEN Err(Msg("invalid type, expected u32"))
              ELSE Ok([f \in RateLimitFields |-> Field(parameters, f).v])

S_V1 == <<"v","1">>
S_V1_Managed == <<"v","1","_","m","a","n","a","g","e","d">>
S_V1Managed == <<"v","1","-","m","a","n","a","g","e","d">>
ID_AuthBearerV1Managed == ID_AuthBearerV1 \o <<"-","m","a","n","a","g","e","d">>

\* a call that returned `value`
Returned(value) == [tag |-> "Return", value |-> value]

\* auth::bearer::policy_id_with_version : a match on the version string
\* whose last arm panics
policy_id_with_version(version) ==
  CASE version = S_V1 -> Returned(ID_AuthBearerV1)
    [] version = S_V1Managed -> Returned(ID_AuthBearerV1Managed)
    [] OTHER -> Panic

\* F::version() ; None unless the factory overrides it
Factory_version(F) ==
  CASE F = "auth_bearer_v1" -> << S_V1 >>
    [] F = "auth_bearer_v1_managed" -> << S_V1_Managed >>
    [] OTHER -> << >>

\* the call F::policy_id() ; "auth_bearer_v1_managed" is
\* BearerAuthManagedPolicyFactory, "managed_bearer" is a factory of the
\* embedding program that takes the identifier of the built-in bearer policy
Factory_policy_id(F) ==
  CASE F = "auth_bearer_v1" -> policy_id_with_version(S_V1)
    [] F = "auth_bearer_v1_managed" -> policy_id_with_version(S_V1_Managed)
    [] F = "managed_bearer" -> Returned(ID_AuthBearerV1)
    [] F = "status_page" -> Returned(ID_StatusPage)
    [] F = "authentication_bearer_v1" -> Returned(ID_AuthenticationBearerV1)
    [] F = "rbac_v1" -> Returned(ID_RbacV1)
    [] OTHER -> Returned(ID_RateLimiter)

\* the identifier F::policy_id() returned
policy_id(F) == Factory_policy_id(F).value

\* BearerAuthPolicyFactory::new of @bouncer/auth/bearer/v1
AuthBearerV1_new(cfg, global_config, feats, connect) ==
  IF cfg.db_provider # << >>
  THEN LET p == cfg.db_provider[1] IN
       IF global_config = << >> THEN Err(Msg("Global configuration not initialized"))
       ELSE IF p \notin KnownDbs \cap feats
       THEN Err(Msg("Unsupported or disabled database provider: ") \o p)
       ELSE IF cfg[RequiredField(p)] = << >>
       THEN Err(Msg(RequiredField(p) \o " is required when using " \o DbName(p)
                    \o " database"))
       ELSE LET valid == validate_database_config(global_config[1].databases, p, feats) IN
            IF ~valid.ok THEN Err(valid.err)
            ELSE LET client == get_client(global_config[1].databases[p][1], p, feats,
                                          connect) IN
                 IF ~client.ok THEN Err(client.err)
                 ELSE Ok(Pol("auth_bearer", cfg.token, cfg.realm, TRUE, {}))
  ELSE IF cfg.token = << >>
  THEN Err(Msg("Either token or db_provider must be specified"))
  ELSE Ok(Pol("auth_bearer", cfg.token, cfg.realm, FALSE, {}))

\* BearerAuthPolicyFactory::validate_config of @bouncer/auth/bearer/v1
AuthBearerV1_validate_config(cfg, feats) ==
  IF cfg.token = << >> /\ cfg.db_provider = << >>
  THEN Err(Msg("Either token or db_provider must be specified"))
  ELSE IF cfg.db_provider = << >> THEN Ok(<< >>)
  ELSE LET p == cfg.db_provider[1] IN
       IF p \notin KnownDbs THEN Err(Msg("Unsupported database provider: ") \o p)
       ELSE IF cfg[RequiredField(p)] = << >>
       THEN Err(Msg(RequiredField(p) \o " is required when using " \o DbName(p)
                    \o " database"))
       ELSE IF p \notin feats
       THEN Err(Msg(NotEnabled(p)) \o p \o Msg("' feature."))
       ELSE Ok(<< >>)

\* BearerAuthPolicyFactory::new of @bouncer/authentication/bearer/v1
AuthenticationBearerV1_new(cfg, global_config, feats, connect) ==
  IF cfg.db_provider = << >>
  THEN Ok(Pol("authentication_bearer", cfg.token, cfg.realm, FALSE, {}))
  ELSE IF cfg.db_provider[1] # S_Mysql
  THEN Err(Msg("Only MySQL database provider is supported"))
  ELSE IF cfg.token_validation_query = << >>
  THEN Err(Msg("token_validation_query is required when using MySQL database"))
  ELSE IF global_config = << >> THEN Err(Msg("Global configuration not initialized"))
  ELSE LET valid == validate_database_config(global_config[1].databases, S_Mysql, feats) IN
       IF ~valid.ok THEN Err(valid.err)
       ELSE LET client == get_client(global_config[1].databases[S_Mysql][1], S_Mysql,
                                     feats, connect) IN
            IF ~client.ok THEN Err(client.err)
            ELSE Ok(Pol("authentication_bearer", cfg.token, cfg.realm, TRUE, {}))

\* BearerAuthPolicyFactory::validate_config of @bouncer/authentication/bearer/v1
AuthenticationBearerV1_validate_config(cfg) ==
  IF cfg.db_provider = << >> THEN Ok(<< >>)
  ELSE IF cfg.db_provider[1] # S_Mysql
  THEN Err(Msg("Only MySQL database provider is supported"))
  ELSE IF cfg.token_validation_query = << >>
  THEN Err(Msg("token_validation_query is required when using MySQL database"))
  ELSE Ok(<< >>)

\* the first route pattern glob::Pattern::new rejects, if any
BadPatterns(cfg) == { e.pattern : e \in { x \in cfg.route_roles : ~PatternNew(x.pattern, 1, << >>).ok } }

\* RbacPolicyFactory::new
RbacV1_new(cfg) ==
  IF cfg.route_roles = {} THEN Err(Msg("At least one route must be configured"))
  ELSE IF BadPatterns(cfg) # {}
  THEN Err(Msg("Invalid route pattern '") \o (CHOOSE p \in BadPatterns(cfg) : TRUE)
           \o Msg("': Pattern syntax error"))
  ELSE Ok(Pol("rbac", << >>, << >>, FALSE, cfg.route_roles))

\* RbacPolicyFactory::validate_config
RbacV1_validate_config(cfg) ==
  IF cfg.route_roles = {} THEN Err(Msg("At least one route role mapping is required"))
  ELSE IF BadPatterns(cfg) # {}
  THEN Err(Msg("Invalid route pattern '") \o (CHOOSE p \in BadPatterns(cfg) : TRUE)
           \o Msg("': Pattern syntax error"))
  ELSE Ok(<< >>)

\* RateLimitPolicyFactory::new
RateLimit_new(cfg) == Ok(Pol("rate_limiter", << >>, << >>, FALSE, {}))

\* RateLimitPolicyFactory::validate_config
RateLimit_validate_config(cfg) ==
  IF cfg.requests_per_minute = 0
  THEN Err(Msg("requests_per_minute must be greater than 0"))
  ELSE Ok(<< >>)

\* new of a factory of the embedding program: a policy shaped like
\* BearerAuthManagedPolicy, built without a store
ManagedBearer_new(cfg) == Ok(Pol("managed_bearer", cfg.token, cfg.realm, FALSE, {}))

\* new of a factory of the embedding program: a policy that has admin routes
\* and does not process requests
StatusPage_new(cfg) == Ok(Pol("status_page", << >>, << >>, FALSE, {}))

\* F::new(config)
Factory_new(F, cfg, global_config, feats, connect) ==
  CASE F = "auth_bearer_v1" -> AuthBearerV1_new(cfg, global_config, feats, connect)
    [] F = "managed_bearer" -> ManagedBearer_new(cfg)
    [] F = "status_page" -> StatusPage_new(cfg)
    [] F = "authentication_bearer_v1" ->
         AuthenticationBearerV1_new(cfg, global_config, feats, connect)
    [] F = "rbac_v1" -> RbacV1_new(cfg)
    [] OTHER -> RateLimit_new(cfg)

\* F::validate_config(&config)
Factory_validate_config(F, cfg, feats) ==
  CASE F = "auth_bearer_v1" -> AuthBearerV1_validate_config(cfg, feats)
    [] F \in { "managed_bearer", "status_page" } -> Ok(<< >>)
    [] F = "authentication_bearer_v1" -> AuthenticationBearerV1_validate_config(cfg)
    [] F = "rbac_v1" -> RbacV1_validate_config(cfg)
    [] OTHER -> RateLimit_validate_config(cfg)

\* whether F::new awaits a connection to a store
AwaitsConnect(F, parameters) ==
  /\ F \in { "auth_bearer_v1", "authentication_bearer_v1" }
  /\ Deserialize(F, parameters).ok
  /\ Deserialize(F, parameters).value.db_provider # << >>

\* the closure register_policy stores for F: deserialize, then F::new
FactoryClosure(F, parameters, global_config, feats, connect) ==
  LET parsed_config == Deserialize(F, parameters)
  IN IF ~parsed_config.ok
     THEN Err(Msg("Failed to parse config: ") \o parsed_config.err)
     ELSE Factory_new(F, parsed_config.value, global_config, feats, connect)

\* a registry that keeps the factory it already holds for an identifier
register_policy_keepFirst(fs, F) ==
  [id \in DOMAIN fs \cup { policy_id(F) } |-> IF id \in DOMAIN fs THEN fs[id] ELSE F]

\* PolicyRegistry::register_policy::<F> on the map `factories`
register_policy(fs, F) ==
  [id \in DOMAIN fs \cup { policy_id(F) } |-> IF id = policy_id(F) THEN F ELSE fs[id]]

\* PolicyRegistry::new
NoFactories == [id \in {} |-> ""]

\* register_builtin_policies
register_builtin_policies(fs) == register_policy(fs, "auth_bearer_v1")

RECURSIVE register_custom_policies(_, _)
\* register_custom_policies : every function of CUSTOM_POLICIES, in order
register_custom_policies(fs, customs) ==
  IF customs = << >> THEN fs
  ELSE register_custom_policies(register_policy(fs, Head(customs)), Tail(customs))

RECURSIVE load_policies_from_directory(_, _)
\* PolicyRegistry::load_policies_from_directory : every library of the
\* directory that loads registers its factory; one that does not is skipped
load_policies_from_directory(fs, dir) ==
  IF dir = << >> THEN fs
  ELSE load_policies_from_directory(
         IF Head(dir).loads THEN register_policy(fs, Head(dir).factory) ELSE fs, Tail(dir))

S_Admin == <<"/","_","a","d","m","i","n">>

\* RouteRegistration { relative_path, handler }
RouteRegistration(relative_path, method_router) ==
  [relative_path |-> relative_path, handler |-> method_router]

\* Policy::register_routes : the bearer policy with admin routes registers
\* one, the status page two, the others keep the default
register_routes(policy) ==
  CASE policy.kind = "managed_bearer" -> << RouteRegistration(<< >>, "hello") >>
    [] policy.kind = "status_page" ->
         << RouteRegistration(<<"s","/">>, "status"),
            RouteRegistration(<<"/","h","/","/">>, "health") >>
    [] OTHER -> << >>

\* provider(), category(), name() and version() of a policy that has routes
PolicyCoordinates(policy) ==
  IF policy.kind = "status_page"
  THEN << <<"a","c","m","e">>, <<"o","p","s">>, <<"s","t","a","t","u","s">>, <<"v","1">> >>
  ELSE << <<"b","o","u","n","c","e","r">>, <<"a","u","t","h">>,
          <<"b","e","a","r","e","r">>, <<"v","1","_","m","a","n","a","g","e","d">> >>

\* build_policy_chain : format!("/_admin/{}/{}/{}/{}", ...)
BasePath(policy) ==
  LET c == PolicyCoordinates(policy)
  IN S_Admin \o << "/" >> \o c[1] \o << "/" >> \o c[2] \o << "/" >> \o c[3]
       \o << "/" >> \o c[4]

RECURSIVE PolicyRouter_register_routes_noTrim(_, _, _)
\* a router that records the full path as it is, and the same plus a slash
PolicyRouter_register_routes_noTrim(routes, registrations, base_path) ==
  IF registrations = << >> THEN routes
  ELSE LET registration == Head(registrations)
           relative_path == IF StartsWith(registration.relative_path, << "/" >>)
                            THEN registration.relative_path
                            ELSE << "/" >> \o registration.relative_path
           full_path == base_path \o relative_path
       IN PolicyRouter_register_routes_noTrim(
            routes \o << [path |-> full_path, handler |-> registration.handler],
                         [path |-> full_path \o << "/" >>,
                          handler |-> registration.handler] >>,
            Tail(registrations), base_path)

RECURSIVE PolicyRouter_register_routes(_, _, _)
\* PolicyRouter::register_routes : each route twice, without and with a
\* trailing slash
PolicyRouter_register_routes(routes, registrations, base_path) ==
  IF registrations = << >> THEN routes
  ELSE LET registration == Head(registrations)
           relative_path == IF StartsWith(registration.relative_path, << "/" >>)
                            THEN registration.relative_path
                            ELSE << "/" >> \o registration.relative_path
           full_path == base_path \o relative_path
           path_without_slash == TrimEndMatches(full_path, "/")
           path_with_slash == path_without_slash \o << "/" >>
       IN PolicyRouter_register_routes(
            routes \o << [path |-> path_without_slash, handler |-> registration.handler],
                         [path |-> path_with_slash, handler |-> registration.handler] >>,
            Tail(registrations), base_path)

\* build_policy_chain : the routes of the policy, if it has any, go to the
\* policy router under its base path
RegisterRoutesOf(policy_router, policy) ==
  IF register_routes(policy) = << >> THEN policy_router
  ELSE PolicyRouter_register_routes(policy_router, register_routes(policy),
                                    BasePath(policy))

\* database::get_*_client returning Ok(Arc::new(pool)) inside F::new : the
\* pool a successful store-backed construction opened, held by that policy
OpenedPool(call, r) ==
  IF r.ok /\ r.value.db
  THEN << [provider |-> Deserialize(call.factory, call.parameters).value.db_provider[1],
           holder |-> call.index] >>
  ELSE << >>

\* a policy that is always put into the chain
processes_requests_always(policy) == TRUE

\* Policy::processes_requests : the default, and the override of the status
\* page, which only has routes
processes_requests(policy) == policy.kind # "status_page"

\* an iteration of build_policy_chain that skips a failing entry
BuildStep_continue(b, call, r) ==
  IF r.ok
  THEN [b EXCEPT !.next = @ + 1,
                 !.calls = Append(@, call),
                 !.pools = @ \o OpenedPool(call, r),
                 !.policy_router = RegisterRoutesOf(@, r.value),
                 !.policy_chain = IF processes_requests(r.value)
                                  THEN Append(@, r.value) ELSE @]
  ELSE [b EXCEPT !.next = @ + 1, !.calls = Append(@, call)]

\* the rest of an iteration of build_policy_chain once the factory returned r
BuildStep(b, call, r) ==
  IF r.ok
  THEN [b EXCEPT !.next = @ + 1,
                 !.calls = Append(@, call),
                 !.pools = @ \o OpenedPool(call, r),
                 !.policy_router = RegisterRoutesOf(@, r.value),
                 !.policy_chain = IF processes_requests(r.value)
                                  THEN Append(@, r.value) ELSE @]
  ELSE [b EXCEPT !.calls = Append(@, call), !.result = << Err(r.err) >>]

\* ------------------------------------------------------------------------
\* Startup: main / start_with_config, load_config, the version gate,
\* start_server and build_policy_chain
\* ------------------------------------------------------------------------

\* number of policy declarations in a configuration file
MaxPolicies == 2

Decl(where, key, value) == [where |-> where, key |-> key, value |-> value]

\* what a configuration file may declare: top-level keys ("key") and items of
\* the `policies` list ("list")
Declarations ==
  << Decl("key", ID_AuthBearerV1, JObj([token |-> JStr(V_EnvTokenA)])),
     Decl("key", ID_AuthBearerV1,
          JObj([db_provider |-> JStr(S_Mysql), token_validation_query |-> JStr(Q_Select)])),
     Decl("key", ID_AuthBearerV1, JObj([realm |-> JStr(R_Admin)])),
     Decl("key", ID_AuthBearerV1, JObj([token |-> JNum(5)])),
     Decl("key", ID_RbacV1,
          JObj([route_roles |-> JObj([p \in { Pat_AdminAll } |-> JArr(<< JStr(R_Admin) >>)])])),
     Decl("list", ID_RateLimiter, JObj([requests_per_minute |-> JNum(0), burst |-> JNum(1)])),
     Decl("key", Key_Metrics, JNull),
     Decl("key", ID_AuthenticationBearerV1, JObj([db_provider |-> JStr(S_Redis)])),
     Decl("list", ID_AuthBearerV1,
          JObj([token |-> JStr(T_Abc), db_provider |-> JStr(S_Mysql),
                token_validation_query |-> JStr(Q_Select)])),
     Decl("list", ID_StatusPage, JObj([x \in {} |-> JNull])) >>

\* the declarations of a file, as indices into Declarations: no declaration
\* twice, no top-level key twice
DeclSeqs ==
  { s \in UNION { [1..n -> DOMAIN Declarations] : n \in 0..MaxPolicies } :
      \A i, j \in DOMAIN s :
        i # j => /\ s[i] # s[j]
                 /\ \/ Declarations[s[i]].where = "list"
                    \/ Declarations[s[j]].where = "list"
                    \/ Declarations[s[i]].key # Declarations[s[j]].key }

RECURSIVE DeclsOf(_, _)
\* the declarations of kind `where` among s, in file order
DeclsOf(s, where) ==
  IF s = << >> THEN << >>
  ELSE LET d == Declarations[Head(s)]
           rest == DeclsOf(Tail(s), where)
       IN IF d.where # where THEN rest
          ELSE IF where = "list"
               THEN << PolicyConfig(d.key, d.key, d.value) >> \o rest
               ELSE << [key |-> d.key, value |-> d.value] >> \o rest

NoDatabases == [p \in KnownDbs |-> << >>]

NoEnvironment == [n \in {} |-> << >>]

\* build features, the `databases` section, the process environment and the
\* functions given to register_custom_policy
Scenarios ==
  { [features |-> {}, databases |-> NoDatabases, environ |-> NoEnvironment,
     customs |-> << >>, plugins |-> << >>],
    [features |-> {}, databases |-> NoDatabases, environ |-> NoEnvironment,
     customs |-> << "rate_limiter" >>,
     plugins |-> << [loads |-> FALSE, factory |-> "rbac_v1"],
                    [loads |-> TRUE, factory |-> "managed_bearer"] >>],
    [features |-> {}, databases |-> NoDatabases,
     environ |-> [n \in { N_TokenA, N_TokenB } |->
                    IF n = N_TokenA THEN S_EnvDot \o N_TokenB ELSE T_Good],
     customs |-> << "rate_limiter", "managed_bearer", "status_page" >>,
     plugins |-> << [loads |-> TRUE, factory |-> "rbac_v1"] >>],
    [features |-> { S_Mysql },
     databases |-> [NoDatabases EXCEPT ![S_Mysql] = << U_Db >>],
     environ |-> [n \in { N_TokenA, N_BouncerToken } |->
                    IF n = N_TokenA THEN T_Abc ELSE Tok_Bad],
     customs |-> << "rate_limiter", "rbac_v1" >>, plugins |-> << >>],
    [features |-> { S_Mysql }, databases |-> NoDatabases,
     environ |-> [n \in { N_TokenA } |-> T_Abc],
     customs |-> << "authentication_bearer_v1" >>, plugins |-> << >>],
    [features |-> {}, databases |-> NoDatabases, environ |-> NoEnvironment,
     customs |-> << "auth_bearer_v1_managed" >>, plugins |-> << >>] }

\* the bouncer_version of a file: compatible, incompatible, absent
FileVersions == { << Ver_Compatible >>, << Ver_Other >>, << >> }

ConfigFile(ver, s, sc) ==
  [bouncer_version |-> ver,
   server |-> << [destination_address |-> << D_Up >>] >>,
   policies |-> DeclsOf(s, "list"),
   databases |-> sc.databases,
   mapping |-> DeclsOf(s, "key")]

NewBuild ==
  [next |-> 1,             \* position of the `for policy_config in config` loop
   policy_chain |-> << >>,
   policy_router |-> << >>,
   calls |-> << >>,        \* ghost: the factory closures invoked, with their results
   pools |-> << >>,        \* ghost: the database pools opened, each with its holder
   result |-> << >>]       \* what build_policy_chain returned, once it has

\* the configuration an earlier call of start_server in the same process
\* was given: one without policies whose `databases` section differs
EarlierConfig(sc) ==
  load_config(
    ConfigFile(<< Ver_Compatible >>, << >>,
               [sc EXCEPT !.databases =
                  IF sc.databases = NoDatabases
                  THEN [NoDatabases EXCEPT ![S_Mysql] = << U_Db >>]
                  ELSE NoDatabases]),
    sc.environ, << >>).value

\* GLOBAL_CONFIG is a static of the process: empty at the first call of
\* start_server, holding the configuration of the first call at a later one
StartupInit ==
  /\ entry_point \in { "main", "start_with_config" }
  /\ \E sc \in Scenarios, ver \in FileVersions, s \in DeclSeqs :
       /\ config_file = ConfigFile(ver, s, sc)
       /\ features = sc.features
       /\ environ = sc.environ
       /\ CUSTOM_POLICIES = sc.customs
       /\ plugins_dir = sc.plugins
       /\ GLOBAL_CONFIG \in { << >>, << EarlierConfig(sc) >> }
  /\ startup_pc = "boot"
  /\ the_config = << >>
  /\ factories = NoFactories
  /\ build = NewBuild
  /\ config_version = << >>
  /\ current_version = VERSION
  /\ version_result = "pending"
  /\ PipeIdle

\* main and start_with_config: load_config, exit(1) on an error
LoadConfig ==
  /\ startup_pc = "boot"
  /\ \E iteration \in IterationOrders(policy_configs(config_file, environ)) :
       LET loaded == load_config(config_file, environ, iteration)
       IN IF loaded.ok
          THEN the_config' = << loaded.value >> /\ startup_pc' = "loaded"
          ELSE the_config' = the_config /\ startup_pc' = "exited"
  /\ UNCHANGED << entry_point, config_file, features, environ, CUSTOM_POLICIES, plugins_dir,
                  GLOBAL_CONFIG,
                  factories, build, verVars, pipeVars >>

\* start_with_config: validate_version against VERSION, exit(1) on an error
CheckVersion ==
  /\ startup_pc = "loaded"
  /\ entry_point = "start_with_config"
  /\ config_version' = the_config[1].bouncer_version
  /\ version_result' = validate_version(the_config[1].bouncer_version, current_version)
  /\ startup_pc' = IF version_result' = "Ok" THEN "checked" ELSE "exited"
  /\ UNCHANGED << entry_point, config_file, features, environ, CUSTOM_POLICIES, plugins_dir,
                  the_config,
                  GLOBAL_CONFIG, factories, build, current_version, pipeVars >>

\* start_server up to build_policy_chain: GLOBAL_CONFIG, the token, the registry
StartServer ==
  /\ \/ startup_pc = "checked"
     \/ startup_pc = "loaded" /\ entry_point = "main"
  /\ GLOBAL_CONFIG' = IF GLOBAL_CONFIG = << >> THEN the_config ELSE GLOBAL_CONFIG
  /\ bouncer_token' = IF env_var(environ, N_BouncerToken) # << >>
                      THEN env_var(environ, N_BouncerToken)[1] ELSE Tok_Secret
  /\ IF \/ Factory_policy_id("auth_bearer_v1") = Panic
        \/ \E i \in DOMAIN CUSTOM_POLICIES : Factory_policy_id(CUSTOM_POLICIES[i]) = Panic
        \/ \E i \in DOMAIN plugins_dir :
             plugins_dir[i].loads /\ Factory_policy_id(plugins_dir[i].factory) = Panic
     THEN \* register_policy panics in F::policy_id(), and start_server with it
          /\ factories' = factories
          /\ startup_pc' = "register_panicked"
     ELSE /\ factories' = load_policies_from_directory(
                            register_custom_policies(
                              register_builtin_policies(NoFactories), CUSTOM_POLICIES),
                            plugins_dir)
          /\ startup_pc' = "building"
  /\ UNCHANGED << entry_point, config_file, features, environ, CUSTOM_POLICIES, plugins_dir,
                  the_config, build,
                  verVars, policies, destination, reqs >>

\* build_policy_chain: one iteration of its loop
BuildEntry ==
  /\ startup_pc = "building"
  /\ build.result = << >>
  /\ build.next <= Len(the_config[1].policies)
  /\ LET policy_config == the_config[1].policies[build.next] IN
     IF policy_config.provider \notin DOMAIN factories
     THEN build' = [build EXCEPT !.result =
                      << Err(Msg("Policy not found for provider ID: ")
                             \o policy_config.provider) >>]
     ELSE LET F == factories[policy_config.provider] IN
          \E connect \in IF AwaitsConnect(F, policy_config.parameters)
                         THEN BOOLEAN ELSE { TRUE } :
            LET r == FactoryClosure(F, policy_config.parameters, GLOBAL_CONFIG,
                                    features, connect)
                call == [index |-> build.next, factory |-> F, connect |-> connect,
                         parameters |-> policy_config.parameters, result |-> r]
            IN build' = BuildStep(build, call, r)
  /\ UNCHANGED << entry_point, config_file, features, environ, CUSTOM_POLICIES, plugins_dir,
                  the_config,
                  GLOBAL_CONFIG, factories, startup_pc, verVars, pipeVars >>

\* build_policy_chain: the end of the loop, Ok((policy_chain, policy_router))
BuildReturn ==
  /\ startup_pc = "building"
  /\ build.result = << >>
  /\ build.next > Len(the_config[1].policies)
  /\ build' = [build EXCEPT !.result =
                 << Ok([policy_chain |-> build.policy_chain,
                        policy_router |-> build.policy_router]) >>]
  /\ UNCHANGED << entry_point, config_file, features, environ, CUSTOM_POLICIES, plugins_dir,
                  the_config,
                  GLOBAL_CONFIG, factories, startup_pc, verVars, pipeVars >>

\* start_server: .expect("Failed to build policy chain"), then the router
\* with the chain as its layer
Expect ==
  /\ startup_pc = "building"
  /\ build.result # << >>
  /\ IF build.result[1].ok
     THEN /\ policies' = build.result[1].value.policy_chain
          /\ destination' = the_config[1].server.destination_address
          /\ startup_pc' = "built"
     ELSE /\ UNCHANGED << policies, destination >>
          /\ startup_pc' = "panicked"
  /\ UNCHANGED << entry_point, config_file, features, environ, CUSTOM_POLICIES, plugins_dir,
                  the_config,
                  GLOBAL_CONFIG, factories, build, verVars, bouncer_token, reqs >>

\* start_server: parse the address and bind; either may fail, which panics
Serve ==
  /\ startup_pc = "built"
  /\ \E bound \in BOOLEAN : startup_pc' = IF bound THEN "serving" ELSE "panicked"
  /\ UNCHANGED << entry_point, config_file, features, environ, CUSTOM_POLICIES, plugins_dir,
                  the_config,
                  GLOBAL_CONFIG, factories, build, verVars, pipeVars >>

StartupNext ==
  \/ LoadConfig
  \/ CheckVersion
  \/ StartServer
  \/ BuildEntry
  \/ BuildReturn
  \/ Expect
  \/ Serve

SpecStartup == StartupInit /\ [][StartupNext]_vars

\* ------------------------------------------------------------------------
\* Properties of the request pipeline
\* ------------------------------------------------------------------------

HasHeader(hs, P(_)) == \E i \in 1..Len(hs) : P(hs[i])

IsBouncerName(n) == StartsWith(ToLowercase(n), S_Bouncer)

\* C1: within one request the policies are invoked in chain order, one after
\* the other: the k-th call of process is made on policy k, it is made only
\* after policy k-1 returned Continue and with exactly the request policy k-1
\* returned, and the handler is reached only after every policy was invoked.
C1_Ordering ==
  \A r \in ReqIds :
    LET t == reqs[r] IN
    /\ Len(t.invoked) <= Len(policies)
    /\ \A k \in 1..Len(t.invoked) :
         /\ t.invoked[k].policy = k
         /\ k > 1 => /\ t.invoked[k - 1].result.tag = "Continue"
                     /\ t.invoked[k].seen = t.invoked[k - 1].result.request
    /\ t.handed # << >> =>
         /\ Len(t.invoked) = Len(policies)
         /\ Len(policies) > 0 =>
              /\ t.invoked[Len(policies)].result.tag = "Continue"
              /\ t.handed[1] = t.invoked[Len(policies)].result.request

\* a request went through a chain of three policies, one of which changed it
C1_Witness ==
  \E r \in ReqIds :
    /\ Len(reqs[r].invoked) = 3
    /\ reqs[r].handed # << >>
    /\ reqs[r].invoked[3].seen # reqs[r].invoked[2].seen

\* C2: when a policy returns Terminate(resp), no later policy is invoked for
\* that request, the handler is not invoked, nothing is sent upstream and the
\* client receives exactly resp.
C2_ShortCircuit ==
  \A r \in ReqIds :
    LET t == reqs[r] IN
    \A k \in 1..Len(t.invoked) :
      t.invoked[k].result.tag = "Terminate" =>
        /\ k = Len(t.invoked)
        /\ t.handed = << >>
        /\ t.sent = << >>
        /\ t.pc = "done"
        /\ t.response = << t.invoked[k].result.response >>

\* a policy that is not the last of its chain terminated the request
C2_Witness ==
  \E r \in ReqIds :
    /\ reqs[r].pc = "done"
    /\ Len(reqs[r].invoked) >= 1
    /\ Len(reqs[r].invoked) < Len(policies)
    /\ reqs[r].invoked[Len(reqs[r].invoked)].result.tag = "Terminate"

\* a name of the protected x-bouncer-* family
IsProtectedName(n) == StartsWith(ToLowercase(n), S_XBouncerDash)

IsClientXBouncer(h) == IsProtectedName(h.name) /\ h.origin = "client"

IsXBouncerHeader(h) == IsProtectedName(h.name)

\* C3: no policy observes a client-supplied x-bouncer-* header: the first
\* policy sees no x-bouncer-* header at all, a later policy sees only those a
\* policy wrote, and with an empty chain the handler sees none.
C3_HeaderTrust ==
  \A r \in ReqIds :
    LET t == reqs[r] IN
    /\ \A k \in 1..Len(t.invoked) :
         /\ ~HasHeader(t.invoked[k].seen.headers, IsClientXBouncer)
         /\ k = 1 => ~HasHeader(t.invoked[k].seen.headers, IsXBouncerHeader)
    /\ t.handed # << >> =>
         /\ ~HasHeader(t.handed[1].headers, IsClientXBouncer)
         /\ policies = << >> => ~HasHeader(t.handed[1].headers, IsXBouncerHeader)

\* a request that came with a client x-bouncer-* header was seen by two
\* policies, the second of which saw a role written by the first
C3_Witness ==
  \E r \in ReqIds :
    /\ HasHeader(reqs[r].inbound.headers, IsClientXBouncer)
    /\ Len(reqs[r].invoked) >= 3
    /\ HasHeader(reqs[r].invoked[3].seen.headers, IsXBouncerHeader)

IsBouncerHeader(h) == IsBouncerName(h.name)

WithoutBouncer(request) ==
  [request EXCEPT !.headers = SelectSeq(@, LAMBDA h : ~IsBouncerHeader(h))]

BouncerHeadersOf(hs) ==
  { [name |-> hs[i].name, value |-> hs[i].value] : i \in { j \in 1..Len(hs) : IsBouncerHeader(hs[j]) } }

\* C4: on an upstream request every bouncer* header is the bouncer-token
\* written by the gateway with the configured token, and two requests that
\* differ only in client-supplied bouncer* headers are sent upstream with the
\* same bouncer* headers.
C4_OutboundScrub ==
  /\ \A r \in ReqIds :
       reqs[r].sent # << >> =>
         \A i \in 1..Len(reqs[r].sent[1].headers) :
           LET h == reqs[r].sent[1].headers[i] IN
           IsBouncerHeader(h) =>
             h.name = H_BouncerToken /\ h.value = bouncer_token /\ h.origin = "gateway"
  /\ \A r1, r2 \in ReqIds :
       ( /\ r1 < r2
         /\ reqs[r1].sent # << >>
         /\ reqs[r2].sent # << >>
         /\ WithoutBouncer(reqs[r1].inbound) = WithoutBouncer(reqs[r2].inbound) )
       => BouncerHeadersOf(reqs[r1].sent[1].headers) = BouncerHeadersOf(reqs[r2].sent[1].headers)

\* two requests that differ in their bouncer* headers only were both sent
\* upstream, with the gateway's token
C4_Witness ==
  \E r1, r2 \in ReqIds :
    /\ reqs[r1].inbound # reqs[r2].inbound
    /\ WithoutBouncer(reqs[r1].inbound) = WithoutBouncer(reqs[r2].inbound)
    /\ reqs[r1].sent # << >>
    /\ reqs[r2].sent # << >>
    /\ BouncerHeadersOf(reqs[r1].sent[1].headers) # {}

\* ------------------------------------------------------------------------
\* Properties of the version gate
\* ------------------------------------------------------------------------

IsDecimal(seg) == seg # << >> /\ \A i \in 1..Len(seg) : seg[i] \in DigitSet

IsDecimalOrStar(seg) == seg = S_Star \/ IsDecimal(seg)

\* a version string in the format of the matching rule: three segments, each a
\* decimal or `*`, the major one concrete
WellFormedVersion(v) ==
  LET parts == Split(v, ".")
  IN /\ Len(parts) = 3
     /\ IsDecimal(parts[1])
     /\ IsDecimalOrStar(parts[2])
     /\ IsDecimalOrStar(parts[3])

V_ZeroStarStar == << "0", ".", "*", ".", "*" >>

\* a string "0.X.Y", whatever the segments X and Y are
IsZeroXY(v) ==
  LET parts == Split(v, ".")
  IN Len(parts) = 3 /\ parts[1] = << "0" >>

\* C7: validate_version(v, v) is Ok for every well-formed v, and
\* validate_version("0.*.*", "0.X.Y") is Ok for all segments X and Y.
C7_VersionIdempotence ==
  version_result # "pending" =>
    /\ (config_version = current_version /\ WellFormedVersion(config_version))
         => version_result = "Ok"
    /\ (config_version = V_ZeroStarStar /\ IsZeroXY(current_version))
         => version_result = "Ok"

\* "0.*.*" was validated against a build 0.X.Y with X and Y not both 0
C7_Witness ==
  /\ version_result = "Ok"
  /\ config_version = V_ZeroStarStar
  /\ IsZeroXY(current_version)
  /\ current_version # << "0", ".", "0", ".", "0" >>

\* what the matching rule says validate_version returns Ok for
RuleAccepts(config, current) ==
  LET cf == Split(config, ".")
      cu == Split(current, ".")
  IN /\ Len(cf) = 3
     /\ Len(cu) = 3
     /\ \A i \in 1..3 : IsDecimalOrStar(cf[i])
     /\ IsDecimal(cf[1])
     /\ cf[1] = cu[1]
     /\ cf[2] = S_Star \/ cf[2] = cu[2]
     /\ cf[3] = S_Star \/ cf[3] = cu[3]

\* C8: validate_version returns Ok exactly when both strings have three
\* segments, every config segment is a decimal or `*`, the config major is
\* concrete and equal to the current major, and minor and patch are `*` or
\* equal to the current ones; it returns an error in every other case.
C8_VersionRule ==
  version_result # "pending" =>
    (version_result = "Ok" <=> RuleAccepts(config_version, current_version))

\* ------------------------------------------------------------------------
\* Properties of startup
\* ------------------------------------------------------------------------

\* build_policy_chain has returned
BuildReturned == startup_pc \in { "building", "built", "serving", "panicked" }
                   /\ build.result # << >>

\* C5: for a registered factory F and parameters P, build_chain on the
\* single entry {provider: F::policy_id(), parameters: P} succeeds if and
\* only if F::validate_config(P) returns Ok.
C5_BuildIffValid ==
  (/\ BuildReturned
   /\ Len(the_config[1].policies) = 1
   /\ the_config[1].policies[1].provider \in DOMAIN factories)
  => LET F == factories[the_config[1].policies[1].provider]
         P == Deserialize(F, the_config[1].policies[1].parameters)
     IN build.result[1].ok
          <=> (P.ok /\ Factory_validate_config(F, P.value, features).ok)

\* C6: on every startup path bouncer_version is validated against the
\* running build before any factory is invoked, and on a mismatch no policy
\* is constructed and the server never binds.
C6_VersionGate ==
  /\ (startup_pc \in { "building", "built", "serving" } \/ build.calls # << >>)
       => version_result = "Ok"
  /\ (the_config # << >>
      /\ validate_version(the_config[1].bouncer_version, VERSION) # "Ok")
       => (build.calls = << >> /\ startup_pc # "serving")

RECURSIVE AtKeys(_)
\* the `@` keys of a mapping, in their declared order
AtKeys(mapping) ==
  IF mapping = << >> THEN << >>
  ELSE IF StartsWith(mapping[1].key, S_At)
       THEN << mapping[1].key >> \o AtKeys(Tail(mapping))
       ELSE AtKeys(Tail(mapping))

\* C9: the policies list produced by loading a configuration lists the `@`
\* keys in their declared order (after the items of the `policies` list).
C9_DeclaredOrder ==
  the_config # << >> =>
    LET loaded == the_config[1].policies
        listed == Len(config_file.policies)
    IN [i \in 1..(Len(loaded) - listed) |-> loaded[listed + i].provider]
         = AtKeys(config_file.mapping)

\* the error build_policy_chain returns for a failed factory call: the
\* deserialization error with its prefix, the error of F::new as it is
CallError(call) ==
  LET parsed == Deserialize(call.factory, call.parameters)
  IN IF ~parsed.ok THEN Msg("Failed to parse config: ") \o parsed.err
     ELSE Factory_new(call.factory, parsed.value, GLOBAL_CONFIG, features,
                      call.connect).err

\* C10: build_chain fails when a provider has no registered factory, and is
\* fail-fast and sequential: the factories are invoked one at a time in
\* declared order, the first entry whose lookup, deserialization or `new`
\* fails makes build_chain return that error (that of `new` verbatim), no
\* factory of a later entry is invoked, and no partial chain or router is
\* returned.
C10_FailFast ==
  startup_pc \in { "building", "built", "serving", "panicked" } =>
    LET entries == the_config[1].policies
        calls == build.calls
        n == Len(calls)
    IN /\ \A k \in 1..n :
            /\ calls[k].index = k
            /\ calls[k].factory = factories[entries[k].provider]
            /\ calls[k].parameters = entries[k].parameters
            /\ k < n => calls[k].result.ok
       /\ n <= Len(entries)
       /\ (n > 0 /\ ~calls[n].result.ok) => build.result # << >>
       /\ build.result # << >> =>
            LET res == build.result[1] IN
            IF res.ok
            THEN /\ n = Len(entries)
                 /\ \A k \in 1..n : calls[k].result.ok
                 /\ \A k \in 1..Len(entries) : entries[k].provider \in DOMAIN factories
                 /\ Len(res.value.policy_chain) <= n
            ELSE /\ res.value = << >>
                 /\ policies = << >>
                 /\ startup_pc \in { "building", "panicked" }
                 /\ IF n > 0 /\ ~calls[n].result.ok
                    THEN res.err = CallError(calls[n])
                    ELSE /\ n < Len(entries)
                         /\ entries[n + 1].provider \notin DOMAIN factories
                         /\ res.err = Msg("Policy not found for provider ID: ")
                                        \o entries[n + 1].provider

\* build_policy_chain failed at the first of two entries, in the factory
C10_Witness ==
  /\ startup_pc = "panicked"
  /\ Len(the_config[1].policies) = 2
  /\ Len(build.calls) = 1
  /\ ~build.calls[1].result.ok
  /\ Deserialize(build.calls[1].factory, build.calls[1].parameters).ok
  /\ the_config[1].policies[2].provider \in DOMAIN factories
  /\ ~build.result[1].ok

\* ------------------------------------------------------------------------
\* Properties of the registry and of the routes of the server
\* ------------------------------------------------------------------------

\* the test of split_policy_provider: at least four segments, the last one
\* beginning with v
IsVersionedId(id) ==
  LET parts == Split(id, "/")
  IN Len(parts) >= 4 /\ StartsWith(parts[Len(parts)], << "v" >>)

\* C11: an identifier without at least four /-separated segments whose last
\* begins with v is neither registered nor resolved by build_policy_chain
C11_VersionedIds ==
  /\ \A id \in DOMAIN factories : IsVersionedId(id)
  /\ startup_pc \in { "building", "built", "serving", "panicked" } =>
       \A i \in DOMAIN build.calls :
         IsVersionedId(the_config[1].policies[build.calls[i].index].provider)

\* the register_policy calls of start_server, in the order built-ins, custom
\* policies, plugins
Registrations ==
  << "auth_bearer_v1" >> \o CUSTOM_POLICIES
    \o [i \in DOMAIN SelectSeq(plugins_dir, LAMBDA lib : lib.loads) |->
          SelectSeq(plugins_dir, LAMBDA lib : lib.loads)[i].factory]

LastRegistration(id) ==
  CHOOSE i \in DOMAIN Registrations :
    /\ policy_id(Registrations[i]) = id
    /\ \A j \in DOMAIN Registrations : policy_id(Registrations[j]) = id => j <= i

\* C12: the registry holds, for each registered identifier, the factory of
\* the most recent registration for it and nothing else; a custom or plugin
\* factory registered under a built-in identifier replaces the built-in one
C12_LastRegistrationWins ==
  startup_pc \in { "building", "built", "serving", "panicked" } =>
    /\ DOMAIN factories = { policy_id(Registrations[i]) : i \in DOMAIN Registrations }
    /\ \A id \in DOMAIN factories : factories[id] = Registrations[LastRegistration(id)]
    /\ (\E i \in DOMAIN Registrations :
          i > 1 /\ policy_id(Registrations[i]) = ID_AuthBearerV1)
         => factories[ID_AuthBearerV1] # "auth_bearer_v1"

\* a custom factory took the place of the built-in one, and a plugin was
\* registered after it
C12_Witness ==
  /\ startup_pc = "building"
  /\ \E i \in DOMAIN CUSTOM_POLICIES : CUSTOM_POLICIES[i] = "managed_bearer"
  /\ factories[ID_AuthBearerV1] = "managed_bearer"
  /\ \E i \in DOMAIN plugins_dir : plugins_dir[i].loads
  /\ \E i, j \in DOMAIN Registrations :
       i # j /\ policy_id(Registrations[i]) = policy_id(Registrations[j])

S_PolicyNotFound == Msg("Policy not found for provider ID: ")

\* C13: after the registrations of start_server the identifiers
\* @bouncer/authentication/bearer/v1 and @bouncer/authorization/rbac/v1 have
\* a factory, and build_policy_chain does not fail to find one for them
C13_BuiltinsResolvable ==
  startup_pc \in { "building", "built", "serving", "panicked" } =>
    /\ { ID_AuthenticationBearerV1, ID_RbacV1 } \subseteq DOMAIN factories
    /\ \A id \in { ID_AuthenticationBearerV1, ID_RbacV1 } :
         build.result # << >> /\ ~build.result[1].ok
           => build.result[1].err # S_PolicyNotFound \o id

\* C14: every admin route the policies contributed is a route of the running
\* server, and a request to it is not answered by the proxy handler behind
\* the policy chain
C14_AdminMounted ==
  startup_pc = "serving" =>
    \A i \in DOMAIN build.result[1].value.policy_router :
      LET admin_path == build.result[1].value.policy_router[i].path
      IN /\ \E k \in DOMAIN AppRoutes : AppRoutes[k].path = admin_path
         /\ RouteOf(admin_path) # "handler"

\* ------------------------------------------------------------------------
\* Properties of the proxy handler
\* ------------------------------------------------------------------------

\* the request left the chain on a gateway with a destination
Proxied(t) == t.handed # << >> /\ destination # << >>

\* the upstream URL that keeps path and query: destination without trailing
\* slashes, the path without leading slashes, the query string if there is one
PreservedUrl(dest, request) ==
  LET destination_trimmed == TrimEndMatches(dest, "/")
      path_trimmed == TrimStartMatches(request.path, "/")
      base == IF path_trimmed = << >> THEN destination_trimmed
              ELSE destination_trimmed \o << "/" >> \o path_trimmed
  IN IF request.query = << >> THEN base ELSE base \o << "?" >> \o request.query[1]

KnownMethods == { "GET", "POST", "PUT", "DELETE", "PATCH", "HEAD", "OPTIONS" }

\* C15: with a destination, every request that leaves the chain with a
\* supported method and a readable body is sent to the destination joined
\* with its path, followed by ? and its query string when it has one, the
\* root path included
C15_UrlPreserved ==
  \A r \in ReqIds :
    LET t == reqs[r] IN
    Proxied(t) /\ t.handed[1].method \in KnownMethods /\ t.body_read # << FALSE >> =>
      /\ t.sent # << >>
      /\ t.sent[1].url = PreservedUrl(destination[1], t.handed[1])

\* C16: every header of the request leaving the chain whose lowercased name
\* does not start with bouncer is on the outbound request with its value,
\* every value of a repeated name included
C16_HeadersPassed ==
  \A r \in ReqIds :
    LET t == reqs[r] IN
    t.sent # << >> =>
      \A i \in DOMAIN t.handed[1].headers :
        LET h == t.handed[1].headers[i] IN
        ~StartsWith(ToLowercase(h.name), S_Bouncer) =>
          \E j \in DOMAIN t.sent[1].headers :
            /\ t.sent[1].headers[j].name = h.name
            /\ t.sent[1].headers[j].value = h.value

\* C17: every request sent to the upstream has exactly one bouncer-token
\* header, and its value is the token captured at startup
C17_TokenInjected ==
  \A r \in ReqIds :
    LET t == reqs[r] IN
    t.sent # << >> =>
      LET tokens == { j \in DOMAIN t.sent[1].headers :
                        ToLowercase(t.sent[1].headers[j].name) = H_BouncerToken }
      IN /\ Cardinality(tokens) = 1
         /\ \A j \in tokens : t.sent[1].headers[j].value = bouncer_token

\* what C18 asks of the outcome h of handler for a request whose body was read
MethodPreserved(request, h) ==
  IF request.method \in { "POST", "PUT", "PATCH" }
  THEN /\ h.sent # << >>
       /\ h.sent[1].method = request.method
       /\ h.sent[1].body = << request.body >>
  ELSE IF request.method \in { "GET", "DELETE", "HEAD", "OPTIONS" }
  THEN /\ h.sent # << >>
       /\ h.sent[1].method = request.method
       /\ h.sent[1].body = << >>
  ELSE /\ h.sent = << >>
       /\ h.response # << >>
       /\ h.response[1].status = 501

\* C18: with a destination and a collected body, POST, PUT and PATCH are sent
\* with the body, GET, DELETE, HEAD and OPTIONS without one, each under its
\* own method, and any other method gets 501 with nothing sent; this holds
\* for the request as it was and, looked at until the upstream has answered,
\* for the same request under every method
C18_MethodPreserved ==
  \A r \in ReqIds :
    LET t == reqs[r] IN
    Proxied(t) /\ t.body_read = << TRUE >> =>
      /\ MethodPreserved(t.handed[1],
                         [sent |-> t.sent,
                          response |-> IF t.sent = << >> THEN t.response ELSE << >>])
      /\ t.upstream = << >> =>
           \A m \in KnownMethods \cup { "TRACE", "CONNECT" } :
             LET request == [t.handed[1] EXCEPT !.method = m]
             IN MethodPreserved(request,
                                handler(destination, bouncer_token, request, TRUE))

\* a request with a body was sent with it while another, with a method the
\* proxy does not know, was answered 501
C18_Witness ==
  \E r1, r2 \in ReqIds :
    /\ Proxied(reqs[r1]) /\ reqs[r1].body_read = << TRUE >>
    /\ reqs[r1].handed[1].method = "POST"
    /\ reqs[r1].sent # << >> /\ reqs[r1].sent[1].body = << "data" >>
    /\ Proxied(reqs[r2]) /\ reqs[r2].body_read = << TRUE >>
    /\ reqs[r2].handed[1].method = "TRACE"
    /\ reqs[r2].pc = "done" /\ reqs[r2].response[1].status = 501

\* C19: a failure to read the request body gives 500; once the request was
\* sent, a send failure gives 502 with a non-empty body, a failure to read
\* the response body gives 500, and otherwise status, headers and body of the
\* upstream response are the response (500 for a status out of range); the
\* task always ends with a response
C19_FailuresTranslated ==
  \A r \in ReqIds :
    LET t == reqs[r] IN
    /\ t.body_read = << FALSE >> =>
         t.pc = "done" /\ t.sent = << >> /\ t.response # << >>
           /\ t.response[1].status = 500
    /\ t.pc = "done" => t.response # << >>
    /\ t.upstream # << >> =>
         LET u == t.upstream[1]
             resp == t.response[1]
         IN CASE u.kind = "send_error" -> resp.status = 502 /\ resp.body # ""
              [] u.kind = "body_error" -> resp.status = 500
              [] OTHER ->
                   /\ resp.status = IF u.response.status \in 100..999
                                    THEN u.response.status ELSE 500
                   /\ resp.headers = u.response.headers
                   /\ resp.body = u.response.body

\* one request could not be read and another was relayed from the upstream
C19_Witness ==
  \E r1, r2 \in ReqIds :
    /\ reqs[r1].body_read = << FALSE >>
    /\ reqs[r2].upstream # << >>
    /\ reqs[r2].upstream[1].kind = "response"
    /\ reqs[r2].response[1].headers # << >>

S_AdminSlash == S_Admin \o << "/" >>

\* C20: without a destination, every request with a non-admin path that
\* leaves the chain gets 200 with the body Hello from Bouncer! and nothing is
\* sent upstream
C20_HelloWithoutDestination ==
  \A r \in ReqIds :
    LET t == reqs[r] IN
    t.handed # << >> /\ destination = << >>
      /\ ~StartsWith(t.handed[1].path, S_AdminSlash) =>
        /\ t.sent = << >>
        /\ t.response = << Resp(200, << >>, "Hello from Bouncer!") >>

\* ------------------------------------------------------------------------
\* Properties of the built-in policies
\* ------------------------------------------------------------------------

BearerKinds == { "authentication_bearer", "auth_bearer" }

\* the value of the Authorization header a policy reads: the first one
AuthorizationOf(request) ==
  LET at == { i \in DOMAIN request.headers : request.headers[i].name = H_Authorization }
  IN IF at = {} THEN << >>
     ELSE << request.headers[CHOOSE i \in at : \A j \in at : i <= j].value >>

\* what C21 asks of the result of a bearer policy in static mode
StaticBearerRule(p, request, result) ==
  LET auth == AuthorizationOf(request)
      realm == IF p.realm = << >> THEN S_Api ELSE p.realm[1]
  IN IF auth # << >> /\ auth[1] = S_BearerSp \o p.token[1]
     THEN result = Continue(request)
     ELSE /\ result.tag = "Terminate"
          /\ result.response.status = 401
          /\ auth = << >> =>
               \E i \in DOMAIN result.response.headers :
                 /\ result.response.headers[i].name = H_WwwAuthenticate
                 /\ result.response.headers[i].value
                      = S_BearerRealm \o realm \o << "\"" >>

PresentedToken(request) == StripPrefix(AuthorizationOf(request)[1], S_BearerSp)[1]

\* C22: a store-backed bearer policy, the one the server registers included,
\* continues with x-bouncer-role: <role> on the request when the lookup finds
\* a role, and answers 401 without the backend's error when it finds none or
\* fails
C22_StoreBearer ==
  \A r \in ReqIds : \A k \in DOMAIN reqs[r].invoked :
    LET e == reqs[r].invoked[k]
        p == policies[e.policy]
    IN p.kind \in BearerKinds /\ p.db /\ e.lookup # "none" =>
         LET role == StoreRole(PresentedToken(e.seen))
         IN IF e.lookup = "Ok" /\ role # << >>
            THEN /\ e.result.tag = "Continue"
                 /\ \E i \in DOMAIN e.result.request.headers :
                      /\ e.result.request.headers[i].name = H_XBouncerRole
                      /\ e.result.request.headers[i].value = role[1]
            ELSE /\ e.result.tag = "Terminate"
                 /\ e.result.response.status = 401
                 /\ e.result.response.body
                      \in { "Unauthorized: Invalid token", "Unauthorized: Invalid Bearer token" }
\* C23: a bearer configuration that sets neither token nor db_provider, or
\* both, is rejected by validate_config and by the construction of the policy
C23_ExactlyOneMode ==
  startup_pc \in { "building", "built", "serving", "panicked" } =>
    \A i \in DOMAIN build.calls :
      LET call == build.calls[i]
          parsed == Deserialize(call.factory, call.parameters)
      IN call.factory \in { "auth_bearer_v1", "authentication_bearer_v1" } /\ parsed.ok
           /\ (parsed.value.token = << >>) = (parsed.value.db_provider = << >>) =>
             /\ ~call.result.ok
             /\ ~Factory_validate_config(call.factory, parsed.value, features).ok
\* the value of the role header the RBAC policy reads: the first one
RoleOf(request) ==
  LET at == { i \in DOMAIN request.headers : request.headers[i].name = H_XBouncerRole }
  IN IF at = {} THEN << >>
     ELSE << request.headers[CHOOSE i \in at : \A j \in at : i <= j].value >>

\* whether some entry of the policy grants the role on the path
Grants(p, role, path) ==
  \E e \in p.route_roles :
    /\ PatternNew(e.pattern, 1, << >>).ok
    /\ PatternMatches(PatternNew(e.pattern, 1, << >>).tokens, path)
    /\ role \in e.roles

\* what C24 asks of the result of the RBAC policy
RbacRule(p, request, result) ==
  LET role == RoleOf(request)
  IN IF role = << >> \/ ~ToStrOk(role[1])
     THEN result.tag = "Terminate" /\ result.response.status = 401
     ELSE IF Grants(p, role[1], request.path)
     THEN result = Continue(request)
     ELSE result.tag = "Terminate" /\ result.response.status = 403

RECURSIVE SegmentGlob(_, _)
\* glob matching aware of path segments: ** matches any characters, * any
\* characters other than /, every other character itself
SegmentGlob(pattern, path) ==
  IF pattern = << >> THEN path = << >>
  ELSE IF Len(pattern) >= 2 /\ pattern[1] = "*" /\ pattern[2] = "*"
  THEN \E n \in 0..Len(path) :
         SegmentGlob(SubSeq(pattern, 3, Len(pattern)), SubSeq(path, n + 1, Len(path)))
  ELSE IF pattern[1] = "*"
  THEN \E n \in 0..Len(path) :
         /\ \A i \in 1..n : path[i] # "/"
         /\ SegmentGlob(Tail(pattern), SubSeq(path, n + 1, Len(path)))
  ELSE path # << >> /\ path[1] = pattern[1] /\ SegmentGlob(Tail(pattern), Tail(path))

\* C25: the RBAC policy grants a request only through an entry whose pattern
\* matches the path with * confined to one segment and ** free to cross
\* segments; a grant on /api/* does not grant /api/a/b
C25_SegmentGlob ==
  \A r \in ReqIds : \A k \in DOMAIN reqs[r].invoked :
    LET e == reqs[r].invoked[k]
        p == policies[e.policy]
    IN p.kind = "rbac" /\ e.result.tag = "Continue" =>
         \E g \in p.route_roles :
           /\ SegmentGlob(g.pattern, e.seen.path)
           /\ RoleOf(e.seen)[1] \in g.roles
\* the chain is a bearer policy with a static token followed by RBAC
StaticBearerThenRbac ==
  /\ Len(policies) = 2
  /\ policies[1].kind \in BearerKinds /\ ~policies[1].db /\ policies[1].token # << >>
  /\ policies[2].kind = "rbac"

\* C26: on the chain [bearer with a static token, rbac] no request is handed
\* to the proxy handler or sent upstream, whatever headers the client sent,
\* and every response is a 401
C26_NoSelfGrantedRole ==
  StaticBearerThenRbac =>
    \A r \in ReqIds :
      LET t == reqs[r] IN
      /\ t.handed = << >>
      /\ t.sent = << >>
      /\ t.pc \notin { "upstream" }
      /\ t.pc = "done" => t.response # << >> /\ t.response[1].status = 401
      /\ \A k \in DOMAIN t.invoked : t.invoked[k].result.tag = "Continue" => k = 1

\* a client sent the right token together with x-bouncer-role: admin for a
\* path granted to admin, and got 401 from the RBAC policy
C26_Witness ==
  /\ StaticBearerThenRbac
  /\ \E r \in ReqIds :
       LET t == reqs[r] IN
       /\ \E i \in DOMAIN t.inbound.headers :
            /\ t.inbound.headers[i].name = H_XBouncerRole
            /\ t.inbound.headers[i].value = R_Admin
       /\ Grants(policies[2], R_Admin, t.inbound.path)
       /\ Len(t.invoked) = 2
       /\ t.invoked[1].result.tag = "Continue"
       /\ t.pc = "done"
       /\ t.response[1].status = 401
\* C27: on a chain where a store-backed bearer policy is followed by RBAC, a
\* request whose token has a stored role that is granted for the path is
\* sent upstream with x-bouncer-role: <role> and the gateway's bouncer-token,
\* and with no x-bouncer-* value the client supplied
C27_FullChain ==
  \A r \in ReqIds :
    LET t == reqs[r] IN
    \A k \in DOMAIN t.invoked :
      LET e == t.invoked[k]
          p == policies[e.policy]
      IN /\ p.kind \in BearerKinds /\ p.db /\ e.lookup = "Ok"
         /\ e.policy < Len(policies) /\ policies[e.policy + 1].kind = "rbac"
         /\ StoreRole(PresentedToken(e.seen)) # << >>
         /\ Grants(policies[e.policy + 1], StoreRole(PresentedToken(e.seen))[1], e.seen.path)
         /\ t.inbound.method \in KnownMethods
         /\ t.body_read # << FALSE >>
         /\ t.pc \in { "upstream", "done" }
         => /\ t.sent # << >>
            /\ \E i \in DOMAIN t.sent[1].headers :
                 /\ t.sent[1].headers[i].name = H_XBouncerRole
                 /\ t.sent[1].headers[i].value = StoreRole(PresentedToken(e.seen))[1]
                 /\ t.sent[1].headers[i].origin = "gateway"
            /\ \E i \in DOMAIN t.sent[1].headers :
                 /\ t.sent[1].headers[i].name = H_BouncerToken
                 /\ t.sent[1].headers[i].value = bouncer_token
            /\ \A i \in DOMAIN t.sent[1].headers :
                 StartsWith(ToLowercase(t.sent[1].headers[i].name), S_XBouncerDash)
                   => t.sent[1].headers[i].origin # "client"
\* C28: no request task ends in a panic: whatever the store lookup and the
\* upstream call give, the task ends with a response
C28_NoPanic ==
  \A r \in ReqIds :
    /\ reqs[r].pc # "panicked"
    /\ reqs[r].pc = "done" => reqs[r].response # << >>


\* ------------------------------------------------------------------------
\* Properties of the chain and of the admin routes that are built
\* ------------------------------------------------------------------------

RECURSIVE ProcessingPolicies(_)
\* the policies the calls constructed, without those that only have routes
ProcessingPolicies(calls) ==
  IF calls = << >> THEN << >>
  ELSE (IF Head(calls).result.value.kind # "status_page"
        THEN << Head(calls).result.value >> ELSE << >>)
         \o ProcessingPolicies(Tail(calls))

RECURSIVE AllRegistrations(_)
\* the route registrations of the policies the calls constructed, each with
\* the coordinates of its policy
AllRegistrations(calls) ==
  IF calls = << >> THEN << >>
  ELSE LET policy == Head(calls).result.value
       IN [k \in DOMAIN register_routes(policy) |->
             [coordinates |-> PolicyCoordinates(policy),
              registration |-> register_routes(policy)[k]]]
            \o AllRegistrations(Tail(calls))

RelativePaths ==
  { << >>, <<"/">>, <<"x">>, <<"s","/">>, <<"/","h","/","/">>, <<"/","a","/","b">> }

\* the two routes the router is to hold for a registration under the base of
\* the coordinates
TwoPaths(first, second, coordinates, registration) ==
  LET B == S_Admin \o << "/" >> \o SliceJoin(coordinates, "/")
      rel == registration.relative_path
      normalized == IF rel # << >> /\ Head(rel) = "/" THEN rel ELSE << "/" >> \o rel
  IN /\ first.handler = registration.handler
     /\ second.handler = registration.handler
     /\ first.path[Len(first.path)] # "/"
     /\ second.path = first.path \o << "/" >>
     /\ \E k \in 0..Len(normalized) :
          /\ first.path = SubSeq(B \o normalized, 1, Len(B \o normalized) - k)
          /\ \A i \in 1..k : normalized[Len(normalized) - k + i] = "/"

\* C30: for each route registration under the base
\* /_admin/<provider>/<category>/<name>/<version> the router makes the
\* relative path begin with / and records exactly two paths with the handler
\* of the registration: base + relative path without a trailing slash, and
\* that path plus one slash.  Checked on the router a build returns and, for
\* each policy with routes, on a set of relative paths.
C30_TwoPathsPerRoute ==
  (build.result # << >> /\ build.result[1].ok) =>
    LET router == build.result[1].value.policy_router
        regs == AllRegistrations(build.calls)
    IN /\ Len(router) = 2 * Len(regs)
       /\ \A j \in DOMAIN regs :
            TwoPaths(router[2 * j - 1], router[2 * j], regs[j].coordinates,
                     regs[j].registration)
       /\ \A j \in DOMAIN regs : \A rel \in RelativePaths :
            LET B == S_Admin \o << "/" >> \o SliceJoin(regs[j].coordinates, "/")
                out == PolicyRouter_register_routes(
                         << >>, << RouteRegistration(rel, "h") >>, B)
            IN /\ Len(out) = 2
               /\ TwoPaths(out[1], out[2], regs[j].coordinates,
                           RouteRegistration(rel, "h"))

C30_Witness ==
  /\ build.result # << >> /\ build.result[1].ok
  /\ Len(build.calls) = 2
  /\ build.calls[1].result.value.kind = "managed_bearer"
  /\ build.calls[2].result.value.kind = "status_page"
  /\ Len(build.result[1].value.policy_router) = 6


\* ------------------------------------------------------------------------
\* Properties of the resources, of concurrent requests and of the
\* configuration
\* ------------------------------------------------------------------------

\* C31: build_policy_chain opens at most one pool per database kind: policies
\* that ask for the same kind share one pool
C31_OnePoolPerHandle ==
  \A i, j \in DOMAIN build.pools :
    build.pools[i].provider = build.pools[j].provider => i = j


\* what a request task holds when its request is processed alone: every call
\* of process is made with the scrubbed inbound request or with what the
\* policy before returned, the result of the latest call is that of the
\* policy on that request and on the outcome of its own store lookup (the
\* calls before it were the latest in their turn), and what follows the
\* chain is the outcome of the handler on the request the chain produced
ProcessedAlone(t) ==
  LET scrubbed == [t.inbound EXCEPT !.headers = clear_bouncer_headers(@)]
      n == Len(t.invoked)
  IN /\ t.pc = "accepted" => t.current = t.inbound /\ n = 0
     /\ \A k \in 1..n :
          LET e == t.invoked[k] IN
          /\ e.policy = k
          /\ e.seen = IF k = 1 THEN scrubbed ELSE t.invoked[k - 1].result.request
          /\ (k = n /\ t.handed = << >>) =>
               e.result = Policy_process(policies[k], e.seen, e.lookup = "Err")
     /\ t.handed # << >> =>
          /\ t.handed[1] = IF n = 0 THEN scrubbed ELSE t.invoked[n].result.request
          /\ \E bodyOk \in BOOLEAN :
               LET h == inner_call(destination, bouncer_token, t.handed[1], bodyOk)
               IN /\ t.sent = h.sent
                  /\ t.upstream = << >> => t.response = h.response
     /\ t.upstream # << >> => t.response = << Relay(t.upstream[1]) >>
     /\ (t.handed = << >> /\ t.response # << >>) =>
          /\ n > 0 /\ t.invoked[n].result.tag = "Terminate"
          /\ t.response = << t.invoked[n].result.response >>

\* C32: concurrent requests do not interfere: a processing step of a request
\* leaves every other request as it was and leaves the chain, the
\* destination, the token and the registry as they were, and what the request
\* holds afterwards (the policies run, the terminating response or the
\* request handed on, the headers injected) is what it holds when processed
\* alone, whatever the other requests did in between.
C32_NoInterference ==
  [][ /\ policies' = policies
      /\ destination' = destination
      /\ bouncer_token' = bouncer_token
      /\ factories' = factories
      /\ \A r \in ReqIds :
           reqs'[r] # reqs[r] =>
             /\ \A q \in ReqIds \ { r } : reqs'[q] = reqs[q]
             /\ SubSeq(reqs'[r].invoked, 1, Len(reqs[r].invoked)) = reqs[r].invoked
             /\ ProcessedAlone(reqs'[r]) ]_vars

\* two different requests are in the middle of their processing at once
C32_Witness ==
  \E r1, r2 \in ReqIds :
    /\ reqs[r1].inbound # reqs[r2].inbound
    /\ reqs[r1].pc = "upstream"
    /\ reqs[r2].pc = "chain"
    /\ Len(reqs[r2].invoked) >= 1
    /\ reqs[r2].invoked[1].seen # reqs[r1].invoked[1].seen


ExpandedOnce(s, env) ==
  IF Len(s) >= 4 /\ SubSeq(s, 1, 4) = <<"E","N","V",".">>
     /\ SubSeq(s, 5, Len(s)) \in DOMAIN env
  THEN env[SubSeq(s, 5, Len(s))] ELSE s

RECURSIVE ExpandedOnceIn(_, _)
\* the strings of a value, each expanded once
ExpandedOnceIn(value, env) ==
  CASE value.t = "str" -> [value EXCEPT !.v = ExpandedOnce(@, env)]
    [] value.t = "obj" ->
         [value EXCEPT !.v = [k \in DOMAIN @ |-> ExpandedOnceIn(@[k], env)]]
    [] value.t = "arr" ->
         [value EXCEPT !.v = [i \in DOMAIN @ |-> ExpandedOnceIn(@[i], env)]]
    [] OTHER -> value

\* C34: in a loaded configuration every string ENV.<NAME> of the file is
\* replaced by the value of NAME when it is set and kept when it is not, and
\* the replacement is made once: a value that itself reads ENV.<OTHER> stays
\* as it is.  Stated for the parameters of the policies of the list and of
\* the top-level keys.
C34_SubstitutedOnce ==
  the_config # << >> =>
    LET loaded == the_config[1].policies
        n == Len(config_file.policies)
    IN /\ \A i \in 1..n :
            loaded[i].parameters
              = ExpandedOnceIn(config_file.policies[i].parameters, environ)
       /\ \A k \in DOMAIN config_file.mapping :
            config_file.mapping[k].key[1] = "@" =>
              \E i \in (n + 1)..Len(loaded) :
                /\ loaded[i].provider = config_file.mapping[k].key
                /\ loaded[i].parameters
                     = ExpandedOnceIn(config_file.mapping[k].value, environ)


\* C35: every accepted request whose connection is not dropped is eventually
\* answered with a response, provided every process call and the upstream
\* call return
C35_EventuallyAnswered ==
  \A r \in ReqIds :
    <>(reqs[r].dropped \/ (reqs[r].pc = "done" /\ reqs[r].response # << >>))


\* C36: the inner service instance that handles a request is the one on
\* which poll_ready returned Ready before the call
C36_ReadyInstanceCalled ==
  \A r \in ReqIds :
    reqs[r].handed # << >> =>
      /\ reqs[r].inner # << >>
      /\ reqs[r].inner[1] = reqs[r].ready


\* C37: during build_policy_chain the global configuration the factories
\* read is the configuration start_server was called with, at a second call
\* in the same process too
C37_GlobalConfigIsConfig ==
  startup_pc \in { "building", "built", "serving", "panicked" } =>
    GLOBAL_CONFIG = the_config


\* the factories the crate ships
ShippedFactories == { "auth_bearer_v1", "auth_bearer_v1_managed" }

RECURSIVE LastSegment(_)
\* the part of an identifier after its last `/`
LastSegment(id) ==
  IF id = << >> \/ id[Len(id)] = "/" THEN << >>
  ELSE LastSegment(SubSeq(id, 1, Len(id) - 1)) \o << id[Len(id)] >>

\* C39: once start_server has registered the factories, policy_id() of every
\* shipped factory among them has returned an identifier, and the version
\* segment of that identifier is the factory's version()
C39_PolicyIdReturns ==
  startup_pc \notin { "boot", "loaded", "checked", "exited" } =>
    /\ startup_pc # "register_panicked"
    /\ \A i \in DOMAIN Registrations :
         Registrations[i] \in ShippedFactories =>
           /\ Factory_policy_id(Registrations[i]).tag = "Return"
           /\ << LastSegment(policy_id(Registrations[i])) >>
                = Factory_version(Registrations[i])


\* the entries of policy_configs whose key starts with `@`
AtEntries(c) == { e \in c.policy_configs : StartsWith(e.key, S_At) }

\* the loaded policies list is the explicit list followed by one PolicyConfig
\* per `@` key, with id = provider = the key and parameters = its value
ListFromKeys(c) ==
  LET n == Len(config_file.policies)
      generated == SubSeq(c.policies, n + 1, Len(c.policies))
  IN /\ Len(c.policies) = n + Cardinality(AtEntries(c))
     /\ \A i \in 1..n :
          /\ c.policies[i].id = config_file.policies[i].id
          /\ c.policies[i].provider = config_file.policies[i].provider
     /\ \A e \in AtEntries(c) :
          \E i \in DOMAIN generated : generated[i] = PolicyConfig(e.key, e.key, e.value)
     /\ \A i \in DOMAIN generated :
          \E e \in AtEntries(c) : generated[i] = PolicyConfig(e.key, e.key, e.value)

\* C38: a loaded configuration has the explicit policies followed by exactly
\* one entry per top-level `@` key and none for another key, and applying
\* process_policy_configs to it again leaves the list as it is
C38_PolicyListStable ==
  the_config # << >> =>
    /\ ListFromKeys(the_config[1])
    /\ \A iteration \in IterationOrders(the_config[1].policy_configs) :
         process_policy_configs(the_config[1].policies, iteration)
           = the_config[1].policies

====
